---- MODULE Spec2Model ----
(***************************************************************************)
(* The x402 payment verification pipeline of chainproofserver:             *)
(* PaymentController.verifyPayment and RewardPoolPaymentController         *)
(* .verifyPayment, the Payment collection they share, and the Solana RPC   *)
(* node they talk to.  Every await of the JavaScript code is a step        *)
(* boundary; the synchronous code between two awaits is one action.        *)
(***************************************************************************)
EXTENDS Integers, Sequences, FiniteSets, TLC

(***************************************************************************)
(* Bounds of the model.                                                    *)
(***************************************************************************)
\* number of verifyPayment calls that are ever started (they may all overlap)
MaxCalls == 2
\* length of the instruction lists validateTransactionInstructions is
\* applied to on its own
MaxInstructions == 3
\* length in bytes of a transaction signature (64 on Solana; 64 % 3 = 1 and
\* the bound keeps a remainder, so base64 pads as it does for 64 bytes)
SigLen == 4

Calls == 1..MaxCalls

\* JavaScript's undefined / null, and an absent field of a stored document:
\* Null where the value would be a name, NoString where it would be a
\* character sequence, NoNumber where it would be a number
Null == "null"
NoString == << >>
NoNumber == -1

(***************************************************************************)
(* Text encodings of a byte sequence.  An encoded string is the sequence   *)
(* of its characters.                                                      *)
(***************************************************************************)
Base58Alphabet ==
  << "1","2","3","4","5","6","7","8","9",
     "A","B","C","D","E","F","G","H","J","K","L","M","N","P","Q","R","S",
     "T","U","V","W","X","Y","Z",
     "a","b","c","d","e","f","g","h","i","j","k","m","n","o","p","q","r",
     "s","t","u","v","w","x","y","z" >>

Base64Alphabet ==
  << "A","B","C","D","E","F","G","H","I","J","K","L","M","N","O","P","Q",
     "R","S","T","U","V","W","X","Y","Z",
     "a","b","c","d","e","f","g","h","i","j","k","l","m","n","o","p","q",
     "r","s","t","u","v","w","x","y","z",
     "0","1","2","3","4","5","6","7","8","9","+","/" >>

\* one pass of the base-x digit loop: digits := digits * 256 + carry, the
\* digits kept least significant first in base 58
RECURSIVE B58Carry(_, _, _)
B58Carry(digits, j, carry) ==
  IF j > Len(digits)
    THEN IF carry = 0 THEN digits
         ELSE B58Carry(Append(digits, carry % 58), j + 1, carry \div 58)
    ELSE LET v == digits[j] * 256 + carry
         IN  B58Carry([digits EXCEPT ![j] = v % 58], j + 1, v \div 58)

RECURSIVE B58Digits(_, _, _)
B58Digits(bytes, i, digits) ==
  IF i > Len(bytes) THEN digits
  ELSE B58Digits(bytes, i + 1, B58Carry(digits, 1, bytes[i]))

RECURSIVE LeadingZeros(_, _)
LeadingZeros(bytes, i) ==
  IF i > Len(bytes) \/ bytes[i] # 0 THEN 0 ELSE 1 + LeadingZeros(bytes, i + 1)

\* bs58.encode(bytes), which is also the form in which the RPC node names a
\* transaction: a "1" for every leading zero byte, then the number in base 58
Base58Encode(bytes) ==
  LET z      == LeadingZeros(bytes, 1)
      digits == B58Digits(bytes, z + 1, << >>)
      n      == Len(digits)
  IN  [k \in 1..z |-> "1"] \o [k \in 1..n |-> Base58Alphabet[digits[n + 1 - k] + 1]]

\* Buffer.from(bytes).toString('base64'): three bytes give four characters,
\* a final group of one or two bytes is padded with "="
RECURSIVE Base64Encode(_)
Base64Encode(bytes) ==
  LET c(v) == Base64Alphabet[v + 1] IN
  IF Len(bytes) = 0 THEN << >>
  ELSE IF Len(bytes) = 1 THEN
    << c(bytes[1] \div 4), c((bytes[1] % 4) * 16), "=", "=" >>
  ELSE IF Len(bytes) = 2 THEN
    << c(bytes[1] \div 4), c((bytes[1] % 4) * 16 + bytes[2] \div 16),
       c((bytes[2] % 16) * 4), "=" >>
  ELSE
    << c(bytes[1] \div 4), c((bytes[1] % 4) * 16 + bytes[2] \div 16),
       c((bytes[2] % 16) * 4 + bytes[3] \div 64), c(bytes[3] % 64) >>
    \o Base64Encode(SubSeq(bytes, 4, Len(bytes)))

\* String.prototype.includes on character sequences
Includes(s, sub) ==
  \E i \in 0..(Len(s) - Len(sub)) : SubSeq(s, i + 1, i + Len(sub)) = sub

(***************************************************************************)
(* Configuration held by the two controller singletons.                    *)
(***************************************************************************)
Variants == {"wallet", "pool"}

requiredAmount == 100000
TOKEN_PROGRAM_ID == "TokenkegQfeZyiNwAJbNbGKPFXCWuBvf9Ss623VQ5DA"
SYSTEM_PROGRAM_ID == "11111111111111111111111111111111"
paymentWallet == << "P", "a", "y" >>
rewardPoolVault == << "V", "l", "t" >>
tokenMint(v) == IF v = "wallet" THEN "X402_TOKEN_MINT" ELSE "STAKE_TOKEN_MINT"

(***************************************************************************)
(* The transactions a client may submit.  A transaction is what            *)
(* Transaction.from decodes (signature bytes, instruction list) together   *)
(* with what the chain reports about it once it has landed (execution      *)
(* error, token balances before and after, log lines, block position).     *)
(***************************************************************************)
\* the eight little-endian bytes of a u64
U64LE(n) ==
  << n % 256, (n \div 256) % 256, (n \div 65536) % 256, (n \div 16777216) % 256,
     0, 0, 0, 0 >>

Alice == << "A", "l", "c" >>
PoolPda == << "P", "d", "a" >>
SrcAccount == << "S", "r", "c" >>
PayAccount == << "A", "t", "a" >>
OtherAccount == << "O", "t", "h" >>

TransferIx(amount, dest) ==
  [programId |-> TOKEN_PROGRAM_ID, data |-> << 3 >> \o U64LE(amount),
   keys |-> << SrcAccount, dest, Alice >>]
\* a token-program instruction that is not Transfer (12 = TransferChecked)
CheckedIx == [programId |-> TOKEN_PROGRAM_ID, data |-> << 12 >> \o U64LE(100000) \o << 6 >>,
              keys |-> << SrcAccount, PayAccount, Alice >>]
\* a system-program transfer: first data byte 2, not the token program
SystemIx == [programId |-> SYSTEM_PROGRAM_ID, data |-> << 2, 0, 0, 0 >> \o U64LE(100000),
             keys |-> << Alice, PoolPda >>]

Bal(idx, amount, owner, mint) ==
  [accountIndex |-> idx, amount |-> amount, owner |-> owner, mint |-> mint]
\* a log line, by the phrases it contains
LogLine(transfer, ok) == [hasInstructionTransfer |-> transfer, hasSuccess |-> ok]
TokenLogs == << LogLine(TRUE, FALSE), LogLine(FALSE, TRUE) >>

AccountKeys == << SrcAccount, PayAccount, rewardPoolVault, OtherAccount >>

Sig(i) == [k \in 1..SigLen |-> IF i = 3 /\ k = 1 THEN 0 ELSE (i * 53 + k * 101) % 256]

MkTx(i, signed, ixs, err, pre, post, logs) ==
  [signature |-> IF signed THEN Sig(i) ELSE NoString, instructions |-> ixs,
   err |-> err, preTokenBalances |-> pre, postTokenBalances |-> post,
   logMessages |-> logs, accountKeys |-> AccountKeys,
   blockTime |-> 1000 + i, slot |-> 200 + i]

NoBalances == << >>

\* 1: pays 150000 to the payment wallet and to the pool vault in two
\*    transfers of which the first declares 100000
TxGood ==
  MkTx(1, TRUE, << SystemIx, TransferIx(100000, PayAccount), TransferIx(50000, PayAccount) >>, Null,
       << Bal(0, 500000, Alice, "X402_TOKEN_MINT"), Bal(1, 20000, paymentWallet, "X402_TOKEN_MINT") >>,
       << Bal(0, 200000, Alice, "X402_TOKEN_MINT"), Bal(1, 170000, paymentWallet, "X402_TOKEN_MINT"),
          Bal(2, 150000, PoolPda, "STAKE_TOKEN_MINT") >>,
       TokenLogs)
\* 2: declares 50000, less than the required amount
TxLow ==
  MkTx(2, TRUE, << TransferIx(50000, PayAccount) >>, Null,
       << Bal(1, 0, paymentWallet, "X402_TOKEN_MINT") >>,
       << Bal(1, 50000, paymentWallet, "X402_TOKEN_MINT") >>, TokenLogs)
\* 3: instructions, but no token Transfer among them
TxNoTransfer ==
  MkTx(3, TRUE, << SystemIx, CheckedIx >>, Null, NoBalances, NoBalances, TokenLogs)
\* 4: no instructions at all
TxEmpty == MkTx(4, TRUE, << >>, Null, NoBalances, NoBalances, << >>)
\* 5: declares 100000 but moves it back again: no balance changes, no error,
\*    a memo line that reads "Instruction: Transfer ... success", and the
\*    recipients' token accounts among the accounts of the transaction
TxRoundTrip ==
  MkTx(5, TRUE, << TransferIx(100000, OtherAccount) >>, Null,
       << Bal(0, 500000, Alice, "X402_TOKEN_MINT"), Bal(1, 20000, paymentWallet, "X402_TOKEN_MINT"),
          Bal(2, 30000, PoolPda, "STAKE_TOKEN_MINT") >>,
       << Bal(0, 500000, Alice, "X402_TOKEN_MINT"), Bal(1, 20000, paymentWallet, "X402_TOKEN_MINT"),
          Bal(2, 30000, PoolPda, "STAKE_TOKEN_MINT") >>,
       TokenLogs \o << LogLine(TRUE, TRUE) >>)
\* 6: declares 100000 and fails when executed on chain
TxExecFail ==
  MkTx(6, TRUE, << TransferIx(100000, PayAccount) >>, "InstructionError",
       << Bal(1, 20000, paymentWallet, "X402_TOKEN_MINT") >>,
       << Bal(1, 20000, paymentWallet, "X402_TOKEN_MINT") >>, << LogLine(TRUE, FALSE) >>)
\* 7: declares 100000 to somebody else and pays the recipients 50000 only
TxShort ==
  MkTx(7, TRUE, << TransferIx(100000, OtherAccount), TransferIx(50000, PayAccount) >>, Null,
       << Bal(0, 500000, Alice, "X402_TOKEN_MINT"), Bal(1, 20000, paymentWallet, "X402_TOKEN_MINT"),
          Bal(3, 0, Alice, "X402_TOKEN_MINT") >>,
       << Bal(0, 300000, Alice, "X402_TOKEN_MINT"), Bal(1, 70000, paymentWallet, "X402_TOKEN_MINT"),
          Bal(3, 100000, Alice, "X402_TOKEN_MINT"), Bal(2, 50000, PoolPda, "STAKE_TOKEN_MINT") >>,
       TokenLogs)
\* 8: a well-formed payment whose signature slot is empty
TxUnsigned ==
  MkTx(8, FALSE, << TransferIx(100000, PayAccount) >>, Null, NoBalances, NoBalances, << >>)

Transactions ==
  << TxGood, TxLow, TxNoTransfer, TxEmpty, TxRoundTrip, TxExecFail, TxShort, TxUnsigned >>
TxIds == 1..Len(Transactions)
\* the value of the X-PAYMENT transaction that Transaction.from cannot decode
Undecodable == 0
Inputs == TxIds \cup {Undecodable}

(***************************************************************************)
(* Static validation (step 4).                                             *)
(***************************************************************************)
\* Buffer.readBigUInt64LE(offset) followed by Number(): the eight bytes at
\* offset..offset+7 (counted from 0), least significant first
RECURSIVE ReadUIntLE(_, _, _)
ReadUIntLE(data, offset, n) ==
  IF n = 0 THEN 0 ELSE data[offset + 1] + 256 * ReadUIntLE(data, offset + 1, n - 1)

\* does readBigUInt64LE(1) throw a RangeError on this instruction data
ReadOutOfRange(data) == Len(data) < 9

IsTransferIx(ix) ==
  /\ ix.programId = TOKEN_PROGRAM_ID
  /\ Len(ix.data) > 0
  /\ ix.data[1] = 3

\* the loop without its break: the last Transfer instruction of the list
FirstTransferIx_NoBreak(ixs, i) ==
  LET hits == {k \in i..Len(ixs) : IsTransferIx(ixs[k])}
  IN  IF hits = {} THEN 0 ELSE CHOOSE k \in hits : \A j \in hits : j <= k

\* index of the first Transfer instruction of the token program (where the
\* loop breaks), 0 if the loop ends without one
RECURSIVE FirstTransferIx(_, _)
FirstTransferIx(ixs, i) ==
  IF i > Len(ixs) THEN 0
  ELSE IF IsTransferIx(ixs[i]) THEN i
  ELSE FirstTransferIx(ixs, i + 1)

ValidationError(msg) == [valid |-> FALSE, error |-> msg, amount |-> 0, sender |-> NoString]

\* the validation without its "if (!transferInstruction)" test: the amount
\* stays 0 when the loop finds no transfer
validateTransactionInstructions_NoTransferTest(transaction) ==
  LET instructions == transaction.instructions
      k == FirstTransferIx(instructions, 1)
      amount == IF k = 0 THEN 0 ELSE ReadUIntLE(instructions[k].data, 1, 8)
  IN
  IF Len(instructions) = 0 THEN ValidationError("No instructions in transaction")
  ELSE IF amount < requiredAmount THEN ValidationError("Insufficient payment amount")
  ELSE [valid |-> TRUE, error |-> Null, amount |-> amount,
        sender |-> IF Len(instructions[k].keys) >= 2 THEN instructions[k].keys[1] ELSE NoString]

validateTransactionInstructions(transaction) ==
  LET instructions == transaction.instructions
      k == FirstTransferIx(instructions, 1)
  IN
  IF Len(instructions) = 0 THEN ValidationError("No instructions in transaction")
  ELSE IF k = 0 THEN ValidationError("No SPL token transfer instruction found")
  ELSE IF ReadOutOfRange(instructions[k].data)
    THEN ValidationError("Transaction validation failed")
  ELSE
    LET amount == ReadUIntLE(instructions[k].data, 1, 8)
        senderTokenAccount ==
          IF Len(instructions[k].keys) >= 2 THEN instructions[k].keys[1] ELSE NoString
    IN  IF amount < requiredAmount
          THEN ValidationError("Insufficient payment amount")
          ELSE [valid |-> TRUE, error |-> Null, amount |-> amount,
                sender |-> senderTokenAccount]

(***************************************************************************)
(* Reconstruction of the transfers of a finalized transaction (step 8).    *)
(***************************************************************************)
\* position of the entry of account idx in the account map, 0 if none
RECURSIVE MapIndex(_, _, _)
MapIndex(map, idx, i) ==
  IF i > Len(map) THEN 0
  ELSE IF map[i].accountIndex = idx THEN i
  ELSE MapIndex(map, idx, i + 1)

\* Map.set keeps the position of a key that is already there
MapSet(map, entry) ==
  LET i == MapIndex(map, entry.accountIndex, 1)
  IN  IF i = 0 THEN Append(map, entry) ELSE [map EXCEPT ![i] = entry]

\* accountKeys[accountIndex]?.toBase58()
AccountAddress(txDetails, idx) ==
  IF idx + 1 \in DOMAIN txDetails.accountKeys THEN txDetails.accountKeys[idx + 1] ELSE NoString

RECURSIVE AddPreBalances(_, _, _, _)
AddPreBalances(txDetails, pre, i, map) ==
  IF i > Len(pre) THEN map
  ELSE AddPreBalances(txDetails, pre, i + 1,
         MapSet(map, [accountIndex |-> pre[i].accountIndex, pre |-> pre[i].amount, post |-> 0,
                      owner |-> pre[i].owner, mint |-> pre[i].mint,
                      accountAddress |-> AccountAddress(txDetails, pre[i].accountIndex)]))

RECURSIVE AddPostBalances(_, _, _, _)
AddPostBalances(txDetails, post, i, map) ==
  IF i > Len(post) THEN map
  ELSE LET k == MapIndex(map, post[i].accountIndex, 1)
       IN  AddPostBalances(txDetails, post, i + 1,
             IF k # 0 THEN [map EXCEPT ![k].post = post[i].amount]
             ELSE Append(map, [accountIndex |-> post[i].accountIndex, pre |-> 0,
                               post |-> post[i].amount,
                               owner |-> post[i].owner, mint |-> post[i].mint,
                               accountAddress |-> AccountAddress(txDetails, post[i].accountIndex)]))

AccountMap(txDetails) ==
  AddPostBalances(txDetails, txDetails.postTokenBalances, 1,
    AddPreBalances(txDetails, txDetails.preTokenBalances, 1, << >>))

\* the accounts with increases, in the order of the map; the destination is
\* the owner in the payment-wallet controller and the token account address
\* in the reward-pool controller
RECURSIVE Increases(_, _, _)
Increases(v, map, i) ==
  IF i > Len(map) THEN << >>
  ELSE LET diff == map[i].post - map[i].pre
       IN  (IF diff > 0
              THEN << [destination |-> IF v = "wallet" THEN map[i].owner ELSE map[i].accountAddress,
                       mint |-> map[i].mint, amount |-> diff] >>
              ELSE << >>)
           \o Increases(v, map, i + 1)

\* logMessages?.some(log => log.includes('Instruction: Transfer') && log.includes('success'))
HasTokenTransferLog(txDetails) ==
  \E i \in DOMAIN txDetails.logMessages :
     txDetails.logMessages[i].hasInstructionTransfer /\ txDetails.logMessages[i].hasSuccess

\* Array.prototype.find: the first of the elements at the positions hits
\* (those that satisfy the test), as a sequence of at most one element
FindFirst(seq, hits) ==
  IF hits = {} THEN << >>
  ELSE << seq[CHOOSE i \in hits : \A j \in hits : i <= j] >>

\* payment-wallet controller only: no balance changed, the transaction did
\* not fail and the logs confirm a transfer
LogFallback(txDetails) ==
  LET post == txDetails.postTokenBalances
      recipientAccount ==
        FindFirst(post, {i \in DOMAIN post : /\ post[i].owner = paymentWallet
                                             /\ post[i].mint = tokenMint("wallet")})
  IN  IF txDetails.err = Null /\ HasTokenTransferLog(txDetails) /\ Len(recipientAccount) > 0
        THEN << [destination |-> recipientAccount[1].owner, mint |-> recipientAccount[1].mint,
                 amount |-> requiredAmount] >>
        ELSE << >>

parseTokenTransfers(v, txDetails) ==
  LET transfers == Increases(v, AccountMap(txDetails), 1)
  IN  IF v = "wallet" /\ Len(transfers) = 0 THEN LogFallback(txDetails) ELSE transfers

TransferError(msg) ==
  [success |-> FALSE, error |-> msg, amount |-> 0, blockTime |-> NoNumber, slot |-> NoNumber]

\* what verifyOnChainTransfer makes of the answer of getTransaction
\* (NoDetails when the node returned null)
NoDetails == [notFound |-> TRUE]
\* poolVault is this.rewardPoolVault as it stands when the transfer is verified
MatchesRecipient(v, transfer, poolVault) ==
  /\ IF v = "wallet" THEN Includes(transfer.destination, paymentWallet)
                     ELSE transfer.destination = poolVault
  /\ transfer.mint = tokenMint(v)

verifyOnChainTransfer(v, txDetails, poolVault) ==
  IF txDetails = NoDetails THEN TransferError("Transaction not found on chain")
  ELSE
    LET tokenTransfers == parseTokenTransfers(v, txDetails)
        paymentTransfer ==
          FindFirst(tokenTransfers,
                    {i \in DOMAIN tokenTransfers : MatchesRecipient(v, tokenTransfers[i], poolVault)})
    IN  IF Len(paymentTransfer) = 0
          THEN TransferError(IF v = "wallet" THEN "No matching token transfer found"
                             ELSE "No matching token transfer to reward pool found")
        ELSE IF paymentTransfer[1].amount < requiredAmount
          THEN TransferError("Insufficient amount transferred")
        ELSE [success |-> TRUE, error |-> Null, amount |-> paymentTransfer[1].amount,
              blockTime |-> txDetails.blockTime, slot |-> txDetails.slot]

(***************************************************************************)
(* The Payment collection.                                                 *)
(***************************************************************************)
\* a document with nothing but the absent values of the optional fields
EmptyDoc ==
  [transactionSignature |-> NoString, status |-> "pending", amount |-> NoNumber,
   tokenMint |-> Null, senderWallet |-> NoString, recipientWallet |-> NoString,
   endpoint |-> Null, userId |-> Null,
   blockTime |-> NoNumber, slot |-> NoNumber, verifiedAt |-> NoNumber]

\* positions of the documents with this transactionSignature
DocsWith(docs, key) == {i \in DOMAIN docs : docs[i].transactionSignature = key}

\* Payment.findOne({transactionSignature: key}): the first such document,
\* as a sequence of at most one element
findOne(docs, key) ==
  LET hits == DocsWith(docs, key)
  IN  IF hits = {} THEN << >>
      ELSE << docs[CHOOSE i \in hits : \A j \in hits : i <= j] >>

\* the document after an update that sets the fields of paymentData and
\* leaves the other fields as they are
SetFields(doc, paymentData) ==
  [f \in DOMAIN doc |-> IF f \in DOMAIN paymentData THEN paymentData[f] ELSE doc[f]]

\* the update written as an insert: every write adds a document
findOneAndUpdate_AlwaysInsert(docs, paymentData) ==
  Append(docs, SetFields(EmptyDoc, paymentData))

\* Payment.findOneAndUpdate({transactionSignature}, paymentData,
\* {upsert: true, new: true}), atomic in the store: the collection afterwards
findOneAndUpdate(docs, paymentData) ==
  LET hits == DocsWith(docs, paymentData.transactionSignature)
  IN  IF hits = {} THEN Append(docs, SetFields(EmptyDoc, paymentData))
      ELSE LET i == CHOOSE k \in hits : \A j \in hits : k <= j
           IN  [docs EXCEPT ![i] = SetFields(docs[i], paymentData)]

(***************************************************************************)
(* The identifiers of a transaction.                                       *)
(***************************************************************************)
\* a lookup that does not take its key from the transaction
LookupKey_OfFirst(t) == Base58Encode(Transactions[1].signature)

\* step 2: the key of the step-3 lookup, the variable signatureBase58:
\* Buffer.from(signature.signature).toString('base64')
LookupKey(t) == Base64Encode(Transactions[t].signature)

\* step 6: the signature sendRawTransaction returns for a transaction it
\* accepts; the node names a transaction by its first signature in base 58
SentSignature(t) == Base58Encode(Transactions[t].signature)

\* step 6: the signature recovered after "already processed",
\* bs58.encode(sig.signature)
RecoveredSignature(t) == Base58Encode(Transactions[t].signature)

\* the catch without its test of the message: every error of the
\* submission is a submission failure
IsAlreadyProcessedError_Never(outcome) == FALSE

\* does the catch around sendRawTransaction take the error for "the
\* transaction is already on chain" (error.message includes 'already
\* processed' or 'already been processed')
IsAlreadyProcessedError(outcome) == outcome = "already processed"

(***************************************************************************)
(* State.                                                                  *)
(***************************************************************************)
VARIABLES
  store,    \* the Payment collection: documents in insertion order
  landed,   \* the transactions the chain has processed
  call,     \* the verifyPayment calls: position, arguments, result
  request,  \* the HTTP requests in the x402 middleware: what was sent for each
  probe,    \* the argument and the result of a function applied on its own
  batch,    \* the request of a batch endpoint: its addresses and its results
  vault,    \* this.rewardPoolVault of the reward-pool controller
  keys      \* the APIKey collection and the requests of /auth/api-keys

vars == << store, landed, call, request, probe, batch, vault, keys >>

\* what the payment path never changes
beside == << probe, batch, vault, keys >>
\* what verifyPayment itself never changes
aside == << request, beside >>

\* the endpoint and user of a request
Contexts == { [endpoint |-> "/api/analyze", userId |-> Null],
              [endpoint |-> "/api/risk", userId |-> "user1"] }

NoResult == [success |-> FALSE, error |-> Null, message |-> Null, payment |-> EmptyDoc]
\* verifyPayment without its catch: the error leaves the call, which has no
\* result
Rejected_Uncaught(msg) == NoResult
\* what the catch of verifyPayment returns for an error with this message
Rejected(msg) == [success |-> FALSE, error |-> msg, message |-> Null, payment |-> EmptyDoc]
Accepted(doc, msg) == [success |-> TRUE, error |-> Null, message |-> msg, payment |-> doc]

\* a call before it is made.  The last four fields observe the call and are
\* read by no step: the requests it has made so far, the calls that had
\* returned when it started, whether the node answered its submission
\* with "already processed", and what the node and the store answered to
\* each of its requests
IdleCall ==
  [pc |-> "idle", variant |-> "wallet", input |-> Undecodable,
   endpoint |-> Null, userId |-> Null,
   txSignature |-> NoString, pendingError |-> Null, result |-> NoResult,
   ops |-> {}, after |-> {}, alreadyProcessed |-> FALSE, answers |-> {}]

\* the X-PAYMENT header of a request, by what the middleware reads of it:
\* whether it is there, what JSON.parse makes of it ("invalid": it throws,
\* "null": the value null, "object": a value with properties), which of the
\* top-level fields are there and truthy, and payload.serializedTransaction
\* (NoNumber if it is missing or empty)
Header(present, json, fields, transaction) ==
  [present |-> present, json |-> json, fields |-> fields, serializedTransaction |-> transaction]
AbsentHeader == Header(FALSE, "invalid", {}, NoNumber)
RequiredFields == {"x402Version", "scheme", "network", "payload"}

\* a request before it arrives.  stage is the position of the middleware;
\* the other fields observe the request: the value of X402_ENABLED and the
\* header it came with, the number of calls of next() and the status codes
\* of the responses sent; apiKey is its x-api-key header (Null: none) and
\* keyDoc what the lookup of that key returned
NoKeyDoc ==
  [outcome |-> "none", isActive |-> FALSE, expired |-> FALSE, subscription |-> Null,
   user |-> Null]
IdleRequest ==
  [stage |-> "idle", enabled |-> FALSE, header |-> AbsentHeader,
   nextCalls |-> 0, responses |-> << >>, apiKey |-> Null, keyDoc |-> NoKeyDoc]

\* no function is being applied
NoProbe == [applied |-> FALSE, instructions |-> << >>, result |-> ValidationError(Null)]

\* no batch request has arrived.  analysed observes the request: the
\* addresses whose analysis was started, in that order
IdleBatch ==
  [stage |-> "idle", endpoint |-> Null, isArray |-> FALSE, tokenAddresses |-> << >>,
   results |-> << >>, analysed |-> << >>, status |-> NoNumber, count |-> NoNumber]

\* the reward-pool controller once initializePoolVault has set the address
DerivedVault == [address |-> rewardPoolVault, initialising |-> FALSE]

\* an /auth/api-keys request before it arrives
\* (isActive and renames are its body, loaded is
\* the isActive of the document its findOne returned, status its response)
IdleKeyRequest ==
  [pc |-> "idle", keyId |-> 0, isActive |-> Null, renames |-> FALSE, loaded |-> FALSE,
   status |-> NoNumber]
\* no API key exists and no request is being handled; created counts the
\* documents saved so far, the _id of a document is its number
NoKeys == [docs |-> << >>, created |-> 0, requests |-> [c \in Calls |-> IdleKeyRequest]]

\* the payment path before any request, with the vault address set
InitPayments ==
  /\ store = << >>
  /\ landed = {}
  /\ call = [c \in Calls |-> IdleCall]
  /\ request = [c \in Calls |-> IdleRequest]

Init ==
  /\ InitPayments
  /\ probe = NoProbe
  /\ batch = IdleBatch
  /\ vault = DerivedVault
  /\ keys = NoKeys

\* the calls that have returned
Done == {c \in Calls : call[c].pc = "done"}

Return(c, res) == [call[c] EXCEPT !.pc = "done", !.result = res]
Await(c, what) == [call[c] EXCEPT !.pc = what, !.ops = @ \cup {what}]
\* the call record with the answer to its pending request written down
Answered(rec, what, outcome) == [rec EXCEPT !.answers = @ \cup {<< what, outcome >>}]

(***************************************************************************)
(* verifyPayment, one action per await.                                    *)
(***************************************************************************)
\* the record of the confirmation step (status failed)
\* the locals validationResult and transferVerification of verifyPayment,
\* which depend on the transaction (and the controller) only
validationResults == [t \in TxIds |-> validateTransactionInstructions(Transactions[t])]
PoolVaultValues == {NoString, rewardPoolVault}
transferVerifications ==
  [poolVault \in PoolVaultValues |->
     [v \in Variants |-> [t \in TxIds |-> verifyOnChainTransfer(v, Transactions[t], poolVault)]]]

\* this.paymentWallet / this.rewardPoolVault, the recipient written to a record
recipientWallet(v) == IF v = "wallet" THEN paymentWallet ELSE vault.address

FailedPaymentData(c) ==
  LET t == call[c].input
      validationResult == validationResults[t]
  IN  [userId |-> call[c].userId, transactionSignature |-> call[c].txSignature,
       amount |-> validationResult.amount, tokenMint |-> tokenMint(call[c].variant),
       senderWallet |-> validationResult.sender,
       recipientWallet |-> recipientWallet(call[c].variant),
       endpoint |-> call[c].endpoint, status |-> "failed"]

\* the record of the final step (status confirmed); new Date() is the time
\* of the call, told apart from the times of the other calls by its number
ConfirmedPaymentData(c) ==
  LET t == call[c].input
      validationResult == validationResults[t]
      transferVerification == transferVerifications[vault.address][call[c].variant][t]
  IN  [userId |-> call[c].userId, transactionSignature |-> call[c].txSignature,
       amount |-> transferVerification.amount, tokenMint |-> tokenMint(call[c].variant),
       senderWallet |-> validationResult.sender,
       recipientWallet |-> recipientWallet(call[c].variant),
       endpoint |-> call[c].endpoint, status |-> "confirmed",
       blockTime |-> transferVerification.blockTime, slot |-> transferVerification.slot,
       verifiedAt |-> c]

\* steps 1 and 2: decode, take the first signature, ask the store; the
\* call as it stands at its first await (or at its end)
Started(c, v, input, ctx) ==
  LET started == [call[c] EXCEPT !.variant = v, !.input = input,
                                 !.endpoint = ctx.endpoint, !.userId = ctx.userId,
                                 !.after = Done]
  IN  IF input = Undecodable
        THEN [started EXCEPT !.pc = "done", !.result = Rejected("Transaction decode error")]
      ELSE IF Len(Transactions[input].signature) = 0
        THEN [started EXCEPT !.pc = "done",
                             !.result = Rejected("Invalid transaction signature")]
      ELSE [started EXCEPT !.pc = "findOne", !.ops = {"findOne"}]

\* verifyPayment is called
Start(c, v, input, ctx) ==
  /\ call[c].pc = "idle"
  /\ ~vault.initialising
  /\ \A d \in Calls : d < c => call[d].pc # "idle"
  /\ call' = [call EXCEPT ![c] = Started(c, v, input, ctx)]
  /\ UNCHANGED << store, landed, aside >>

\* step 3 and, in the same turn, static validation (step 4) and the request
\* of the simulation (payment wallet) or of the submission (reward pool)
FindOneReturn(c, outcome) ==
  /\ call[c].pc = "findOne"
  /\ LET t == call[c].input
         existingPayment == findOne(store, LookupKey(t))
         validationResult == validationResults[t]
     IN  call' = [call EXCEPT ![c] = Answered(
           IF outcome = "throws" THEN Return(c, Rejected("Store error"))
           ELSE IF Len(existingPayment) > 0 /\ existingPayment[1].status = "confirmed"
             THEN Return(c, Accepted(existingPayment[1], "Payment already confirmed"))
           ELSE IF Len(existingPayment) > 0 /\ existingPayment[1].status = "failed"
             THEN Return(c, Rejected("Transaction previously failed verification"))
           ELSE IF ~validationResult.valid
             THEN Return(c, Rejected(validationResult.error))
           ELSE IF call[c].variant = "wallet" THEN Await(c, "simulateTransaction")
           ELSE Await(c, "sendRawTransaction"),
           "findOne", outcome)]
  /\ UNCHANGED << store, landed, aside >>

\* step 5 with a failed record written for a failed simulation
SimulateReturn_PersistsFailure(c, outcome) ==
  /\ call[c].pc = "simulateTransaction"
  /\ call' = [call EXCEPT ![c] = Answered(
       IF outcome = "err"
         THEN [Await(c, "upsertFailed") EXCEPT !.pendingError = "Transaction simulation failed"]
       ELSE IF outcome = "throws" THEN Return(c, Rejected("Simulation error"))
       ELSE Await(c, "sendRawTransaction"),
       "simulateTransaction", outcome)]
  /\ UNCHANGED << store, landed, aside >>

\* step 5 without the test of simulationResult.valid
SimulateReturn_IgnoresError(c, outcome) ==
  /\ call[c].pc = "simulateTransaction"
  /\ call' = [call EXCEPT ![c] =
       Answered(Await(c, "sendRawTransaction"), "simulateTransaction", outcome)]
  /\ UNCHANGED << store, landed, aside >>

\* step 5 (payment wallet only)
SimulateReturn(c, outcome) ==
  /\ call[c].pc = "simulateTransaction"
  /\ call' = [call EXCEPT ![c] = Answered(
       IF outcome = "err" THEN Return(c, Rejected("Transaction simulation failed"))
       ELSE IF outcome = "throws" THEN Return(c, Rejected("Simulation error"))
       ELSE Await(c, "sendRawTransaction"),
       "simulateTransaction", outcome)]
  /\ UNCHANGED << store, landed, aside >>

\* what the node may answer to sendRawTransaction: the signature (the
\* transaction then lands, or is dropped and never lands), an "already
\* processed" error (the transaction has landed, through an earlier
\* submission of a call or of the client itself), or another error
SendOutcomes(t) ==
  IF t \in landed THEN {"already processed", "error"}
  ELSE {"lands", "dropped", "already processed", "error"}

\* step 6
SendReturn(c, outcome) ==
  /\ call[c].pc = "sendRawTransaction"
  /\ outcome \in SendOutcomes(call[c].input)
  /\ landed' = IF outcome \in {"lands", "already processed"}
                 THEN landed \cup {call[c].input} ELSE landed
  /\ LET t == call[c].input
         answered == Answered([call[c] EXCEPT !.alreadyProcessed = (outcome = "already processed")],
                              "sendRawTransaction", outcome)
         confirming(sig) == [answered EXCEPT !.pc = "confirmTransaction",
                                             !.ops = @ \cup {"confirmTransaction"},
                                             !.txSignature = sig]
     IN  call' = [call EXCEPT ![c] =
           IF outcome \in {"lands", "dropped"} THEN confirming(SentSignature(t))
           ELSE IF IsAlreadyProcessedError(outcome) THEN confirming(RecoveredSignature(t))
           ELSE [answered EXCEPT !.pc = "done",
                                 !.result = Rejected("Transaction submission failed")]]
  /\ UNCHANGED << store, aside >>

\* what confirmTransaction may answer: the execution result of a landed
\* transaction, or an exception (always so for one that never landed)
ConfirmOutcomes(t) == IF t \in landed THEN {"value", "throws"} ELSE {"throws"}

\* step 7 without the test of confirmation.value.err: a transaction that the
\* node reports as executed with an error is taken for confirmed
ConfirmReturn_IgnoresErr(c, outcome) ==
  /\ call[c].pc = "confirmTransaction"
  /\ outcome \in ConfirmOutcomes(call[c].input)
  /\ call' = [call EXCEPT ![c] = Answered(
       IF outcome = "throws"
         THEN [Await(c, "upsertFailed") EXCEPT !.pendingError = "Confirmation error"]
       ELSE Await(c, "getTransaction"),
       "confirmTransaction", outcome)]
  /\ UNCHANGED << store, landed, aside >>

\* step 7, and the request of the failed record or of the finalized transaction
ConfirmReturn(c, outcome) ==
  /\ call[c].pc = "confirmTransaction"
  /\ outcome \in ConfirmOutcomes(call[c].input)
  /\ LET err == Transactions[call[c].input].err
     IN  call' = [call EXCEPT ![c] = Answered(
           IF outcome = "throws"
             THEN [Await(c, "upsertFailed") EXCEPT !.pendingError = "Confirmation error"]
           ELSE IF err # Null
             THEN [Await(c, "upsertFailed") EXCEPT !.pendingError = "Transaction failed"]
           ELSE Await(c, "getTransaction"),
           "confirmTransaction", outcome)]
  /\ UNCHANGED << store, landed, aside >>

\* the failed record is written and the confirmation error is not thrown:
\* the call goes on to the transfer check
UpsertFailedReturn_NoThrow(c, outcome) ==
  /\ call[c].pc = "upsertFailed"
  /\ IF outcome = "throws"
       THEN /\ call' = [call EXCEPT ![c] =
                   Answered(Return(c, Rejected("Store error")), "upsertFailed", outcome)]
            /\ UNCHANGED store
       ELSE /\ \E paymentData \in {FailedPaymentData(c)} :
                 store' = findOneAndUpdate(store, paymentData)
            /\ call' = [call EXCEPT ![c] =
                   Answered(Await(c, "getTransaction"), "upsertFailed", outcome)]
  /\ UNCHANGED << landed, aside >>

\* the failed record is written, the confirmation error is returned
UpsertFailedReturn(c, outcome) ==
  /\ call[c].pc = "upsertFailed"
  /\ IF outcome = "throws"
       THEN /\ call' = [call EXCEPT ![c] =
                   Answered(Return(c, Rejected("Store error")), "upsertFailed", outcome)]
            /\ UNCHANGED store
       ELSE /\ \E paymentData \in {FailedPaymentData(c)} :
                 store' = findOneAndUpdate(store, paymentData)
            /\ call' = [call EXCEPT ![c] =
                   Answered(Return(c, Rejected(call[c].pendingError)), "upsertFailed", outcome)]
  /\ UNCHANGED << landed, aside >>

\* what getTransaction may answer
FetchOutcomes(t) == IF t \in landed THEN {"details", "null", "throws"} ELSE {"null", "throws"}

\* step 8, and the request of the confirmed record
GetTransactionReturn(c, outcome) ==
  /\ call[c].pc = "getTransaction"
  /\ outcome \in FetchOutcomes(call[c].input)
  /\ LET txDetails == IF outcome = "null" THEN NoDetails ELSE Transactions[call[c].input]
         transferVerification == verifyOnChainTransfer(call[c].variant, txDetails, vault.address)
     IN  call' = [call EXCEPT ![c] = Answered(
           IF outcome = "throws" THEN Return(c, Rejected("On-chain verification failed"))
           ELSE IF ~transferVerification.success
             THEN Return(c, Rejected(transferVerification.error))
           ELSE Await(c, "upsertConfirmed"),
           "getTransaction", outcome)]
  /\ UNCHANGED << store, landed, aside >>

\* step 9
UpsertConfirmedReturn(c, outcome) ==
  /\ call[c].pc = "upsertConfirmed"
  /\ IF outcome = "throws"
       THEN /\ call' = [call EXCEPT ![c] =
                   Answered(Return(c, Rejected("Store error")), "upsertConfirmed", outcome)]
            /\ UNCHANGED store
       ELSE \E paymentData \in {ConfirmedPaymentData(c)} :
            \E payment \in {findOne(findOneAndUpdate(store, paymentData),
                                     paymentData.transactionSignature)[1]} :
              LET message == IF call[c].variant = "wallet"
                               THEN "Payment verified and confirmed"
                               ELSE "Payment verified and sent to reward pool"
              IN  /\ store' = findOneAndUpdate(store, paymentData)
                  /\ call' = [call EXCEPT ![c] =
                         Answered(Return(c, Accepted(payment, message)), "upsertConfirmed", outcome)]
  /\ UNCHANGED << landed, aside >>

\* the store answers every request; StoreFaultOutcomes adds its I/O errors
StoreOutcomes == {"ok"}
StoreFaultOutcomes == {"ok", "throws"}
SimulateOutcomes == {"ok", "err", "throws"}
AllSendOutcomes == {"lands", "dropped", "already processed", "error"}
AllConfirmOutcomes == {"value", "throws"}
AllFetchOutcomes == {"details", "null", "throws"}

Next ==
  \/ \E c \in Calls, v \in Variants, input \in Inputs, ctx \in Contexts : Start(c, v, input, ctx)
  \/ \E c \in Calls, o \in StoreOutcomes : FindOneReturn(c, o)
  \/ \E c \in Calls, o \in SimulateOutcomes : SimulateReturn(c, o)
  \/ \E c \in Calls, o \in AllSendOutcomes : SendReturn(c, o)
  \/ \E c \in Calls, o \in AllConfirmOutcomes : ConfirmReturn(c, o)
  \/ \E c \in Calls, o \in StoreOutcomes : UpsertFailedReturn(c, o)
  \/ \E c \in Calls, o \in AllFetchOutcomes : GetTransactionReturn(c, o)
  \/ \E c \in Calls, o \in StoreOutcomes : UpsertConfirmedReturn(c, o)

Spec == Init /\ [][Next]_vars

\* the same calls with a store whose requests may fail
NextStoreFaults ==
  \/ Next
  \/ \E c \in Calls : FindOneReturn(c, "throws")
  \/ \E c \in Calls : UpsertFailedReturn(c, "throws")
  \/ \E c \in Calls : UpsertConfirmedReturn(c, "throws")

SpecStoreFaults == Init /\ [][NextStoreFaults]_vars

(***************************************************************************)
(* Properties.                                                             *)
(***************************************************************************)
\* the calls that were made on a decoded, signed transaction
OnTransaction(c) ==
  /\ call[c].pc # "idle"
  /\ call[c].input # Undecodable
  /\ Len(Transactions[call[c].input].signature) > 0

\* positions of the records of transaction t, whichever text form of its
\* signature they carry
RecordsOf(docs, t) ==
  {i \in DOMAIN docs :
     docs[i].transactionSignature \in {LookupKey(t), SentSignature(t), RecoveredSignature(t)}}

\* call d had returned success with a confirmed record when call c started
\* on the same transaction
ReplayOf(c, d) ==
  /\ OnTransaction(c)
  /\ d \in call[c].after
  /\ call[d].input = call[c].input
  /\ call[d].result.success
  /\ call[d].result.payment.status = "confirmed"

\* call d had failed at confirmation and written its failed record when
\* call c started on the same transaction
RetryOfFailed(c, d) ==
  /\ OnTransaction(c)
  /\ d \in call[c].after
  /\ call[d].input = call[c].input
  /\ "upsertFailed" \in call[d].ops
  /\ call[d].result.error \in {"Confirmation error", "Transaction failed"}

NetworkRequests == {"simulateTransaction", "sendRawTransaction", "confirmTransaction", "getTransaction"}
StoreWrites == {"upsertFailed", "upsertConfirmed"}

\* C1: once a call on a transaction has returned success with a confirmed
\* record, a later call on the same transaction asks the node for neither a
\* simulation nor a submission, and returns success with the stored record.
C1_ReplayWithoutResubmission ==
  \A c \in Calls : \A d \in Calls :
    ReplayOf(c, d) =>
      /\ "simulateTransaction" \notin call[c].ops
      /\ "sendRawTransaction" \notin call[c].ops
      /\ call[c].pc = "done" =>
           /\ call[c].result.success
           /\ call[c].result.message = "Payment already confirmed"
           /\ \E i \in RecordsOf(store, call[c].input) : call[c].result.payment = store[i]

\* C2: after a call on a transaction has failed at confirmation and written
\* the failed record, a later call on the same transaction is rejected by
\* the lookup as previously failed and gets no further than the lookup.
C2_PreviouslyFailedRejected ==
  \A c \in Calls : \A d \in Calls :
    RetryOfFailed(c, d) =>
      /\ call[c].ops \subseteq {"findOne"}
      /\ call[c].pc = "done" =>
           /\ ~call[c].result.success
           /\ call[c].result.error = "Transaction previously failed verification"

\* C3: the status of a record is written once: a record that is confirmed
\* is not failed after any step, and a record that is failed is not
\* confirmed after any step.
C3_StatusWrittenOnce ==
  [][\A i \in DOMAIN store : \A j \in DOMAIN store' :
       (/\ store[i].transactionSignature = store'[j].transactionSignature
        /\ store[i].status \in {"confirmed", "failed"})
       => store'[j].status = store[i].status]_vars

\* C4: verifyPayment called again on a transaction after the call that
\* confirmed it had returned: the second call returns success too, and the
\* store holds exactly one record of the transaction.
C4_VerifyIdempotent ==
  \A c \in Calls : \A d \in Calls :
    (ReplayOf(c, d) /\ call[c].pc = "done") =>
      /\ call[c].result.success
      /\ Cardinality(RecordsOf(store, call[c].input)) = 1

\* C5: the store never holds two records with the same transaction
\* signature, nor two records of the same transaction.
C5_SignatureUnique ==
  /\ \A i \in DOMAIN store : \A j \in DOMAIN store :
       store[i].transactionSignature = store[j].transactionSignature => i = j
  /\ \A t \in TxIds : Cardinality(RecordsOf(store, t)) <= 1

\* two calls on the same transaction have both written their record, and
\* the store holds one record of it
C5_Witness ==
  \E c \in Calls : \E d \in Calls :
    /\ c # d
    /\ call[c].pc = "done" /\ call[d].pc = "done"
    /\ call[c].input = call[d].input
    /\ call[c].ops \cap StoreWrites # {}
    /\ call[d].ops \cap StoreWrites # {}
    /\ Cardinality(RecordsOf(store, call[c].input)) = 1

(***************************************************************************)
(* What the chain shows of a transaction, read off its balance lists       *)
(* directly.                                                               *)
(***************************************************************************)
\* the balance of account idx before the transaction, 0 if it is not listed
PreAmount(tx, idx) ==
  LET hits == {i \in DOMAIN tx.preTokenBalances : tx.preTokenBalances[i].accountIndex = idx}
  IN  IF hits = {} THEN 0 ELSE tx.preTokenBalances[CHOOSE i \in hits : TRUE].amount

\* is this listed balance a token account of the expected recipient and mint
IsRecipientBalance(v, tx, b) ==
  /\ b.mint = tokenMint(v)
  /\ IF v = "wallet" THEN b.owner = paymentWallet
                     ELSE AccountAddress(tx, b.accountIndex) = rewardPoolVault

\* the positive balance increases of the recipient's accounts
RecipientIncreases(v, tx) ==
  {tx.postTokenBalances[i].amount - PreAmount(tx, tx.postTokenBalances[i].accountIndex) :
     i \in {k \in DOMAIN tx.postTokenBalances :
              /\ IsRecipientBalance(v, tx, tx.postTokenBalances[k])
              /\ tx.postTokenBalances[k].amount
                   > PreAmount(tx, tx.postTokenBalances[k].accountIndex)}}

HasMatchingTransfer(v, tx) == \E x \in RecipientIncreases(v, tx) : x >= requiredAmount

NoTransferInstruction(tx) ==
  \A i \in DOMAIN tx.instructions :
     ~(/\ tx.instructions[i].programId = TOKEN_PROGRAM_ID
       /\ Len(tx.instructions[i].data) > 0
       /\ tx.instructions[i].data[1] = 3)

\* the amount the first transfer instruction declares
DeclaredAmount(tx) ==
  LET hits == {i \in DOMAIN tx.instructions :
                 /\ tx.instructions[i].programId = TOKEN_PROGRAM_ID
                 /\ Len(tx.instructions[i].data) >= 9
                 /\ tx.instructions[i].data[1] = 3}
      k == CHOOSE i \in hits : \A j \in hits : i <= j
      d == tx.instructions[k].data
  IN  d[2] + 256 * (d[3] + 256 * (d[4] + 256 * d[5]))

IsReplay(c) == call[c].result.message = "Payment already confirmed"

\* C6: a call that accepts and is not a replay has a landed transaction
\* whose balance lists show an increase of at least the required amount on
\* an account of the expected recipient and mint; a confirmed record is
\* requested for such transactions only.
C6_NoAcceptanceWithoutTransfer ==
  \A c \in Calls :
    OnTransaction(c) =>
      /\ (call[c].pc = "done" /\ call[c].result.success /\ ~IsReplay(c)) =>
           /\ call[c].input \in landed
           /\ HasMatchingTransfer(call[c].variant, Transactions[call[c].input])
      /\ "upsertConfirmed" \in call[c].ops =>
           HasMatchingTransfer(call[c].variant, Transactions[call[c].input])

\* C7: a call on a transaction with a sufficient transfer that was
\* submitted, confirmed and looked up without error accepts, and the amount
\* of every confirmed record is the balance increase of the recipient's
\* account in that transaction.
C7_AmountIsOnChainDelta ==
  /\ \A c \in Calls :
       (/\ OnTransaction(c) /\ call[c].pc = "done"
        /\ HasMatchingTransfer(call[c].variant, Transactions[call[c].input])
        /\ "getTransaction" \in call[c].ops
        /\ call[c].result.error \notin {"Transaction not found on chain",
                                        "On-chain verification failed"})
       => call[c].result.success /\ call[c].result.payment.status = "confirmed"
  /\ \A i \in DOMAIN store :
       store[i].status = "confirmed" =>
         \E t \in TxIds : \E v \in Variants :
            /\ Len(Transactions[t].signature) > 0
            /\ store[i].transactionSignature = SentSignature(t)
            /\ store[i].recipientWallet = recipientWallet(v)
            /\ store[i].amount \in RecipientIncreases(v, Transactions[t])

\* the transferred amount is below the required amount: in the instruction,
\* or in every balance increase of the recipient
DeclaredBelowMinimum(tx) == ~NoTransferInstruction(tx) /\ DeclaredAmount(tx) < requiredAmount
DeliveredBelowMinimum(v, tx) == ~NoTransferInstruction(tx) /\ ~HasMatchingTransfer(v, tx)

\* C8: a call on a transaction whose transferred amount is below the
\* required amount is rejected, with the insufficient-amount reason where
\* the amount check decides, and no confirmed record of the transaction
\* exists.
C8_InsufficientNeverConfirmed ==
  \A c \in Calls :
    LET tx == Transactions[call[c].input]
        v == call[c].variant
    IN  (OnTransaction(c) /\ (DeclaredBelowMinimum(tx) \/ DeliveredBelowMinimum(v, tx))) =>
          /\ call[c].pc = "done" =>
               /\ ~call[c].result.success
               /\ DeclaredBelowMinimum(tx) => call[c].result.error = "Insufficient payment amount"
          /\ "upsertConfirmed" \notin call[c].ops
          /\ \A i \in RecordsOf(store, call[c].input) :
               store[i].recipientWallet = recipientWallet(v) => store[i].status # "confirmed"

\* the transaction is one that, landed, carries a valid transfer
ValidTransfer(v, t) ==
  /\ ~NoTransferInstruction(Transactions[t])
  /\ DeclaredAmount(Transactions[t]) >= requiredAmount
  /\ Transactions[t].err = Null
  /\ HasMatchingTransfer(v, Transactions[t])

AlreadyProcessedCase(c) ==
  /\ OnTransaction(c)
  /\ call[c].alreadyProcessed
  /\ ValidTransfer(call[c].variant, call[c].input)

RecordedOnceConfirmed(docs, t) ==
  /\ Cardinality(RecordsOf(docs, t)) = 1
  /\ \A i \in RecordsOf(docs, t) :
       /\ docs[i].status = "confirmed"
       /\ docs[i].transactionSignature = Base58Encode(Transactions[t].signature)

\* C9 as stated: after "already processed" for a landed transaction with a
\* valid transfer the call is not a submission failure, and when it has
\* returned the store holds exactly one record of the transaction, confirmed.
C9_AlreadyProcessedEndsConfirmed ==
  \A c \in Calls :
    AlreadyProcessedCase(c) =>
      /\ call[c].result.error # "Transaction submission failed"
      /\ call[c].pc = "done" => RecordedOnceConfirmed(store, call[c].input)

\* C9 amended: after "already processed" for a landed transaction with a
\* valid transfer the call is not a submission failure; it goes on to the
\* confirmation with the signature recovered from the decoded transaction
\* (base 58), and it returns either success, the store then holding exactly
\* one record of the transaction, confirmed, or the error of the
\* confirmation, of the lookup of the finalized transaction or of the store.
C9_AlreadyProcessedRecovery ==
  [][\A c \in Calls :
       AlreadyProcessedCase(c)' =>
         /\ call'[c].result.error # "Transaction submission failed"
         /\ "confirmTransaction" \in call'[c].ops
         /\ call'[c].txSignature = Base58Encode(Transactions[call'[c].input].signature)
         /\ (call[c].pc # "done" /\ call'[c].pc = "done") =>
              IF call'[c].result.success
                THEN RecordedOnceConfirmed(store', call'[c].input)
                ELSE call'[c].result.error \in {"Confirmation error",
                                                "Transaction not found on chain",
                                                "On-chain verification failed",
                                                "Store error"}]_vars

\* a call that was answered "already processed" has returned success
C9_Witness ==
  \E c \in Calls :
    /\ AlreadyProcessedCase(c)
    /\ call[c].pc = "done"
    /\ call[c].result.success
    /\ RecordedOnceConfirmed(store, call[c].input)

PastSubmission(c) == OnTransaction(c) /\ "confirmTransaction" \in call[c].ops

\* confirmTransaction threw, or reported the execution error of the
\* transaction
ConfirmationFailed(c) ==
  /\ OnTransaction(c)
  /\ \/ << "confirmTransaction", "throws" >> \in call[c].answers
     \/ /\ << "confirmTransaction", "value" >> \in call[c].answers
        /\ Transactions[call[c].input].err # Null

\* getTransaction returned the transaction and the transfer check passed it
TransferVerified(c) ==
  /\ OnTransaction(c)
  /\ << "getTransaction", "details" >> \in call[c].answers
  /\ verifyOnChainTransfer(call[c].variant, Transactions[call[c].input], vault.address).success

\* the upserts the call has asked for
UpsertsOf(c) == call[c].ops \cap StoreWrites

\* C11 as stated: no call asks for more than one upsert, and a call that
\* got past the submission and has returned has asked for exactly one.
C11_ExactlyOneUpsert ==
  \A c \in Calls :
    /\ Cardinality(UpsertsOf(c)) <= 1
    /\ (PastSubmission(c) /\ call[c].pc = "done") => Cardinality(UpsertsOf(c)) = 1

\* C11 amended: no call asks for more than one upsert; a call that got past
\* the submission and has returned has asked for the failed record when
\* the confirmation failed, for the confirmed record when the transfer check
\* passed, and for no upsert when the transfer check rejected; a call that
\* did not get past the submission has asked for none.
C11_AtMostOneUpsert ==
  \A c \in Calls :
    /\ Cardinality(UpsertsOf(c)) <= 1
    /\ ~PastSubmission(c) => UpsertsOf(c) = {}
    /\ (PastSubmission(c) /\ call[c].pc = "done") =>
         UpsertsOf(c) = IF ConfirmationFailed(c) THEN {"upsertFailed"}
                        ELSE IF TransferVerified(c) THEN {"upsertConfirmed"}
                        ELSE {}

\* one call was rejected by the transfer check and asked for no upsert,
\* another wrote its confirmed record
C11_Witness ==
  \E c \in Calls : \E d \in Calls :
    /\ PastSubmission(c) /\ call[c].pc = "done"
    /\ "getTransaction" \in call[c].ops
    /\ UpsertsOf(c) = {}
    /\ PastSubmission(d) /\ call[d].pc = "done"
    /\ UpsertsOf(d) = {"upsertConfirmed"}

\* the first account of the first transfer instruction
DeclaredSender(tx) ==
  LET hits == {i \in DOMAIN tx.instructions :
                 /\ tx.instructions[i].programId = TOKEN_PROGRAM_ID
                 /\ Len(tx.instructions[i].data) >= 9
                 /\ tx.instructions[i].data[1] = 3}
      k == CHOOSE i \in hits : \A j \in hits : i <= j
  IN  tx.instructions[k].keys[1]

\* the message confirmTransaction gives for what the node answered
ConfirmationError(c) ==
  IF << "confirmTransaction", "throws" >> \in call[c].answers
    THEN "Confirmation error" ELSE "Transaction failed"

C13_StructuredResult ==
  \A c \in Calls :
    call[c].pc = "done" =>
      \/ /\ call[c].result.success
         /\ call[c].result.error = Null
         /\ call[c].result.payment # EmptyDoc
         /\ call[c].result.payment.transactionSignature # NoString
      \/ /\ ~call[c].result.success
         /\ call[c].result.error # Null
         /\ call[c].result.payment = EmptyDoc

\* a call has ended on a transaction that could not be decoded, another
\* after an error of the store
C13_Witness ==
  \E c \in Calls : \E d \in Calls :
    /\ call[c].pc = "done" /\ call[c].input = Undecodable
    /\ call[d].pc = "done"
    /\ call[d].answers \cap { << "upsertConfirmed", "throws" >>, << "findOne", "throws" >> } # {}

\* the node answered the submission of the call with a signature or with
\* "already processed"
SubmissionAnswered(c) ==
  /\ OnTransaction(c)
  /\ call[c].answers \cap { << "sendRawTransaction", "lands" >>,
                            << "sendRawTransaction", "dropped" >>,
                            << "sendRawTransaction", "already processed" >> } # {}

\* C15: every record in the store carries the signature of a transaction
\* whose submission by some call had been answered; a call asks for an
\* upsert only after the answer to its own submission; the store changes
\* only in the step that ends an upsert; and no step removes a record or
\* a signature from the store.
C15_RecordLifecycle ==
  [][/\ \A i \in DOMAIN store' :
          \E c \in Calls :
             /\ SubmissionAnswered(c)'
             /\ store'[i].transactionSignature
                  = Base58Encode(Transactions[call'[c].input].signature)
     /\ \A c \in Calls : UpsertsOf(c)' # {} => SubmissionAnswered(c)'
     /\ store' # store =>
          \E c \in Calls : call[c].pc \in StoreWrites /\ call'[c].pc = "done"
     /\ Len(store') >= Len(store)
     /\ \A i \in DOMAIN store :
          \E j \in DOMAIN store' :
             store'[j].transactionSignature = store[i].transactionSignature]_vars

\* a call has written its record after its submission, and another call
\* that ended before the submission has left no record of its transaction
C15_Witness ==
  \E c \in Calls : \E d \in Calls :
    /\ call[c].pc = "done" /\ UpsertsOf(c) # {}
    /\ RecordsOf(store, call[c].input) # {}
    /\ OnTransaction(d) /\ call[d].pc = "done"
    /\ "simulateTransaction" \in call[d].ops
    /\ "sendRawTransaction" \notin call[d].ops
    /\ RecordsOf(store, call[d].input) = {}

(***************************************************************************)
(* Two calls on the same transaction.                                      *)
(***************************************************************************)
\* the answers of a node and a store that work: nothing throws, the
\* transaction lands or is reported as already processed
BenignAnswers ==
  { << "findOne", "ok" >>, << "simulateTransaction", "ok" >>,
    << "sendRawTransaction", "lands" >>, << "sendRawTransaction", "already processed" >>,
    << "confirmTransaction", "value" >>, << "getTransaction", "details" >>,
    << "upsertFailed", "ok" >>, << "upsertConfirmed", "ok" >> }

\* c and d are overlapping calls of one controller on the same transaction,
\* which carries a valid transfer, and every answer so far was benign
RacingPair(c, d) ==
  /\ c < d
  /\ OnTransaction(c) /\ OnTransaction(d)
  /\ call[c].input = call[d].input
  /\ call[c].variant = call[d].variant
  /\ ValidTransfer(call[c].variant, call[c].input)
  /\ c \notin call[d].after
  /\ call[c].answers \cup call[d].answers \subseteq BenignAnswers

\* both have returned; the submission of one landed the transaction and the
\* other's was answered "already processed"
RaceOver(c, d) ==
  /\ RacingPair(c, d)
  /\ call[c].pc = "done" /\ call[d].pc = "done"
  /\ \E x \in {c, d} : \E y \in {c, d} :
       /\ << "sendRawTransaction", "lands" >> \in call[x].answers
       /\ << "sendRawTransaction", "already processed" >> \in call[y].answers

\* a record without the time of its verification
Untimed(doc) == [doc EXCEPT !.verifiedAt = NoNumber]

\* the record left by the interleaving in which c runs to its end before
\* the first step of d: the lookup of d misses the record of c, d verifies
\* the transaction again and writes the record anew
SerialRecord(c, d) == SetFields(EmptyDoc, ConfirmedPaymentData(d))

\* C16: neither of two racing calls is rejected as a submission failure;
\* when both have returned both have succeeded and the store holds exactly
\* one record of the transaction, confirmed, which is (up to its time
\* stamp) the record that the calls leave when they run one after the
\* other.
C16_RaceConverges ==
  \A c \in Calls : \A d \in Calls :
    /\ RacingPair(c, d) =>
         /\ call[c].result.error # "Transaction submission failed"
         /\ call[d].result.error # "Transaction submission failed"
    /\ RaceOver(c, d) =>
         /\ call[c].result.success /\ call[d].result.success
         /\ RecordedOnceConfirmed(store, call[c].input)
         /\ \A i \in RecordsOf(store, call[c].input) :
              Untimed(store[i]) = Untimed(SerialRecord(c, d))

\* what does hold of two racing calls: both succeed, one confirmed record
\* is left, and the record is the one written by either of the two
RaceLeavesOneConfirmed ==
  \A c \in Calls : \A d \in Calls :
    /\ RacingPair(c, d) =>
         /\ call[c].result.error # "Transaction submission failed"
         /\ call[d].result.error # "Transaction submission failed"
    /\ RaceOver(c, d) =>
         /\ call[c].result.success /\ call[d].result.success
         /\ RecordedOnceConfirmed(store, call[c].input)
         /\ \A i \in RecordsOf(store, call[c].input) :
              store[i] \in { SetFields(EmptyDoc, ConfirmedPaymentData(c)),
                             SetFields(EmptyDoc, ConfirmedPaymentData(d)) }

(***************************************************************************)
(* Calls on different transactions.                                        *)
(***************************************************************************)
\* the text forms of the signature of the input of a call
SignaturesOf(input) ==
  IF input = Undecodable \/ Len(Transactions[input].signature) = 0 THEN {}
  ELSE {LookupKey(input), SentSignature(input), RecoveredSignature(input)}

\* what was answered to the request what of call c
AnswerTo(c, what) ==
  LET given == {a \in call[c].answers : a[1] = what}
  IN  IF given = {} THEN Null ELSE (CHOOSE a \in given : TRUE)[2]

\* no other call is on the transaction of c
Alone(c) ==
  \A d \in Calls :
    (d # c /\ call[d].pc # "idle") => call[d].input # call[c].input

\* the result of verifyPayment run on its own, on a store without a record
\* of its transaction, as a function of its arguments and of what the node
\* and the store answer
AloneResult(c) ==
  LET v == call[c].variant
      t == call[c].input
      tx == Transactions[t]
      validationResult == validateTransactionInstructions(tx)
      transferVerification ==
        verifyOnChainTransfer(v, IF AnswerTo(c, "getTransaction") = "null" THEN NoDetails ELSE tx, vault.address)
  IN  IF t = Undecodable THEN Rejected("Transaction decode error")
      ELSE IF Len(tx.signature) = 0 THEN Rejected("Invalid transaction signature")
      ELSE IF AnswerTo(c, "findOne") = "throws" THEN Rejected("Store error")
      ELSE IF ~validationResult.valid THEN Rejected(validationResult.error)
      ELSE IF v = "wallet" /\ AnswerTo(c, "simulateTransaction") = "err"
        THEN Rejected("Transaction simulation failed")
      ELSE IF v = "wallet" /\ AnswerTo(c, "simulateTransaction") = "throws"
        THEN Rejected("Simulation error")
      ELSE IF AnswerTo(c, "sendRawTransaction") = "error"
        THEN Rejected("Transaction submission failed")
      ELSE IF AnswerTo(c, "confirmTransaction") = "throws" \/ tx.err # Null
        THEN IF AnswerTo(c, "upsertFailed") = "throws" THEN Rejected("Store error")
             ELSE Rejected(ConfirmationError(c))
      ELSE IF AnswerTo(c, "getTransaction") = "throws"
        THEN Rejected("On-chain verification failed")
      ELSE IF ~transferVerification.success THEN Rejected(transferVerification.error)
      ELSE IF AnswerTo(c, "upsertConfirmed") = "throws" THEN Rejected("Store error")
      ELSE Accepted(SetFields(EmptyDoc, ConfirmedPaymentData(c)),
                    IF v = "wallet" THEN "Payment verified and confirmed"
                    ELSE "Payment verified and sent to reward pool")

\* C17: a step of a call changes no record that carries another
\* signature than that of its transaction and adds no such record, and a
\* call that shares its transaction with no other call returns what it
\* returns when it runs on its own, whatever the calls on other
\* transactions do.
C17_IndependentSignatures ==
  /\ [][\A c \in Calls :
         call'[c] # call[c] =>
           /\ \A i \in DOMAIN store :
                store[i].transactionSignature \notin SignaturesOf(call'[c].input)
                  => (i \in DOMAIN store' /\ store'[i] = store[i])
           /\ \A j \in DOMAIN store' \ DOMAIN store :
                store'[j].transactionSignature \in SignaturesOf(call'[c].input)]_vars
  /\ [](\A c \in Calls :
         (call[c].pc = "done" /\ Alone(c)) => call[c].result = AloneResult(c))

\* two calls on different transactions have both written their records
C17_Witness ==
  \E c \in Calls : \E d \in Calls :
    /\ OnTransaction(c) /\ OnTransaction(d)
    /\ call[c].input # call[d].input
    /\ call[c].pc = "done" /\ call[d].pc = "done"
    /\ c \notin call[d].after /\ d \notin call[c].after
    /\ UpsertsOf(c) # {} /\ UpsertsOf(d) # {}
    /\ RecordsOf(store, call[c].input) # {} /\ RecordsOf(store, call[d].input) # {}

\* C18: a call of the payment-wallet controller asks for the submission
\* only in the step in which its simulation is answered without error; a
\* simulation that reports an error or throws ends the call in that step
\* with the rejection of the simulation, with no submission, no upsert and
\* the store as it was; a call of the reward-pool controller never asks
\* for a simulation and goes from the lookup to the submission.
C18_SimulationGate ==
  [][\A c \in Calls :
       LET asksSubmission == /\ "sendRawTransaction" \notin call[c].ops
                             /\ "sendRawTransaction" \in call'[c].ops
           simulationFails ==
             /\ call[c].pc = "simulateTransaction"
             /\ call'[c].answers \cap { << "simulateTransaction", "err" >>,
                                        << "simulateTransaction", "throws" >> } # {}
       IN  /\ (call'[c].variant = "wallet" /\ asksSubmission) =>
                /\ call[c].pc = "simulateTransaction"
                /\ << "simulateTransaction", "ok" >> \in call'[c].answers
           /\ (call'[c].variant = "wallet" /\ "sendRawTransaction" \in call'[c].ops) =>
                call'[c].answers \cap {a \in call'[c].answers : a[1] = "simulateTransaction"}
                  = { << "simulateTransaction", "ok" >> }
           /\ simulationFails =>
                /\ call'[c].pc = "done"
                /\ ~call'[c].result.success
                /\ call'[c].result.error \in {"Transaction simulation failed", "Simulation error"}
                /\ "sendRawTransaction" \notin call'[c].ops
                /\ UpsertsOf(c)' = {}
                /\ store' = store
           /\ call'[c].variant = "pool" =>
                /\ "simulateTransaction" \notin call'[c].ops
                /\ asksSubmission => call[c].pc = "findOne"]_vars

\* a payment-wallet call was rejected by the simulation, another has
\* submitted after its simulation
C18_Witness ==
  \E c \in Calls : \E d \in Calls :
    /\ call[c].variant = "wallet" /\ call[c].pc = "done"
    /\ << "simulateTransaction", "err" >> \in call[c].answers
    /\ call[d].variant = "wallet"
    /\ "sendRawTransaction" \in call[d].ops

(***************************************************************************)
(* validateTransactionInstructions applied on its own to instruction       *)
(* lists.                                                                  *)
(***************************************************************************)
\* a Transfer of 150000 from another source account
OtherTransferIx ==
  [programId |-> TOKEN_PROGRAM_ID, data |-> << 3 >> \o U64LE(150000),
   keys |-> << OtherAccount, PayAccount, Alice >>]
\* a Transfer whose data ends before the amount does
ShortTransferIx ==
  [programId |-> TOKEN_PROGRAM_ID, data |-> << 3, 160, 134 >>,
   keys |-> << SrcAccount, PayAccount, Alice >>]
\* a Transfer with a single account
OneKeyTransferIx ==
  [programId |-> TOKEN_PROGRAM_ID, data |-> << 3 >> \o U64LE(100000), keys |-> << SrcAccount >>]
\* a token-program instruction without data
NoDataIx == [programId |-> TOKEN_PROGRAM_ID, data |-> << >>, keys |-> << SrcAccount >>]

ProbeInstructions ==
  { TransferIx(100000, PayAccount), TransferIx(50000, PayAccount), OtherTransferIx,
    ShortTransferIx, OneKeyTransferIx, NoDataIx, CheckedIx, SystemIx }

InstructionLists == UNION { [1..n -> ProbeInstructions] : n \in 0..MaxInstructions }

InitValidate ==
  /\ InitPayments
  /\ batch = IdleBatch
  /\ vault = DerivedVault
  /\ keys = NoKeys
  /\ probe \in { [applied |-> FALSE, instructions |-> ixs, result |-> ValidationError(Null)] :
                   ixs \in InstructionLists }

Validate ==
  /\ ~probe.applied
  /\ probe' = [probe EXCEPT
                 !.applied = TRUE,
                 !.result = validateTransactionInstructions([instructions |-> probe.instructions])]
  /\ UNCHANGED << store, landed, call, request, batch, vault, keys >>

SpecValidate == InitValidate /\ [][Validate]_vars

\* the positions of the token-transfer instructions of a list
TransferPositions(ixs) ==
  {i \in DOMAIN ixs : /\ ixs[i].programId = TOKEN_PROGRAM_ID
                      /\ Len(ixs[i].data) > 0
                      /\ ixs[i].data[1] = 3}

\* the unsigned 64-bit little-endian number in bytes 1 to 8 (counted from
\* 0) of instruction data of at least nine bytes
LittleEndianAmount(d) ==
  d[2] + 256 * (d[3] + 256 * (d[4] + 256 * (d[5] + 256 * (d[6] + 256 * (d[7]
       + 256 * (d[8] + 256 * d[9]))))))

Headers ==
  { AbsentHeader,
    Header(TRUE, "invalid", {}, NoNumber),
    Header(TRUE, "null", {}, NoNumber),
    Header(TRUE, "object", RequiredFields \ {"x402Version"}, NoNumber),
    Header(TRUE, "object", RequiredFields \ {"payload"}, NoNumber),
    Header(TRUE, "object", RequiredFields, NoNumber) }
  \cup { Header(TRUE, "object", RequiredFields, input) : input \in Inputs }

\* req.originalUrl and req.user of the requests
RequestContext == [endpoint |-> "/api/analyze", userId |-> Null]

\* res.status(code).json(...) followed by the return of the middleware
Respond(c, code) ==
  [request[c] EXCEPT !.stage = "ended", !.responses = Append(@, code)]
\* next() as the last statement of the middleware
CallNext(c) ==
  [request[c] EXCEPT !.stage = "ended", !.nextCalls = @ + 1]

\* verifyX402Payment from its entry to its first await or to its end, for a
\* request with this x-api-key header
verifyX402Payment(c, v, enabled, header, apiKey) ==
  /\ request[c].stage = "idle"
  /\ \A d \in Calls : d < c => request[d].stage # "idle"
  /\ call[c].pc = "idle"
  /\ ~vault.initialising
  /\ LET arrived == [request EXCEPT ![c].enabled = enabled, ![c].header = header,
                                    ![c].apiKey = apiKey]
         ends(r) == /\ request' = [arrived EXCEPT ![c] = [r EXCEPT !.enabled = enabled,
                                                                     !.header = header,
                                                                     !.apiKey = apiKey]]
                    /\ UNCHANGED call
     IN  IF ~enabled THEN ends(CallNext(c))
         ELSE IF ~header.present THEN ends(Respond(c, 402))
         ELSE IF header.json = "invalid" THEN ends(Respond(c, 400))
         \* paymentData is null: reading paymentData.x402Version throws a
         \* TypeError, which the outer catch answers
         ELSE IF header.json = "null" THEN ends(Respond(c, 500))
         ELSE IF ~(RequiredFields \subseteq header.fields) THEN ends(Respond(c, 400))
         ELSE IF header.serializedTransaction = NoNumber THEN ends(Respond(c, 400))
         ELSE /\ request' = [arrived EXCEPT ![c].stage = "verifyPayment"]
              /\ call' = [call EXCEPT ![c] =
                            Started(c, v, header.serializedTransaction, RequestContext)]
  /\ UNCHANGED << store, landed, beside >>

\* a request of a route that mounts verifyX402Payment itself
X402Request(c, v, enabled, header) == verifyX402Payment(c, v, enabled, header, Null)

\* the middleware with a response for a failed verification that does not
\* end it
X402VerifyReturn_NoReturn(c) ==
  /\ request[c].stage = "verifyPayment"
  /\ call[c].pc = "done"
  /\ request' = [request EXCEPT ![c] =
       IF ~call[c].result.success
         THEN [Respond(c, 402) EXCEPT !.nextCalls = @ + 1]
         ELSE CallNext(c)]
  /\ UNCHANGED << store, landed, call, beside >>

\* the middleware after the await of verifyPayment
X402VerifyReturn(c) ==
  /\ request[c].stage = "verifyPayment"
  /\ call[c].pc = "done"
  /\ request' = [request EXCEPT ![c] =
       IF ~call[c].result.success THEN Respond(c, 402) ELSE CallNext(c)]
  /\ UNCHANGED << store, landed, call, beside >>

NextX402 ==
  \/ \E c \in Calls, v \in Variants, enabled \in BOOLEAN, header \in Headers :
        X402Request(c, v, enabled, header)
  \/ \E c \in Calls, o \in StoreFaultOutcomes : FindOneReturn(c, o)
  \/ \E c \in Calls, o \in SimulateOutcomes : SimulateReturn(c, o)
  \/ \E c \in Calls, o \in AllSendOutcomes : SendReturn(c, o)
  \/ \E c \in Calls, o \in AllConfirmOutcomes : ConfirmReturn(c, o)
  \/ \E c \in Calls, o \in StoreFaultOutcomes : UpsertFailedReturn(c, o)
  \/ \E c \in Calls, o \in AllFetchOutcomes : GetTransactionReturn(c, o)
  \/ \E c \in Calls, o \in StoreFaultOutcomes : UpsertConfirmedReturn(c, o)
  \/ \E c \in Calls : X402VerifyReturn(c)

SpecX402 == Init /\ [][NextX402]_vars

\* the answer to the pending request of call c arrives, or the middleware
\* that awaits the call runs on
Progress(c) ==
  \/ \E o \in StoreFaultOutcomes : FindOneReturn(c, o)
  \/ \E o \in SimulateOutcomes : SimulateReturn(c, o)
  \/ \E o \in AllSendOutcomes : SendReturn(c, o)
  \/ \E o \in AllConfirmOutcomes : ConfirmReturn(c, o)
  \/ \E o \in StoreFaultOutcomes : UpsertFailedReturn(c, o)
  \/ \E o \in AllFetchOutcomes : GetTransactionReturn(c, o)
  \/ \E o \in StoreFaultOutcomes : UpsertConfirmedReturn(c, o)
  \/ X402VerifyReturn(c)

\* every request of the node and of the store is answered in the end, and
\* a continuation that can run does run
SpecX402Live == SpecX402 /\ \A c \in Calls : WF_vars(Progress(c))

\* what a request has got so far: calls of next() and responses
Decisions(c) == request[c].nextCalls + Len(request[c].responses)

\* C14: a request never gets more than one decision (a call of next() or a
\* response, whose status is 400, 402 or 500), a request whose middleware
\* has ended has got exactly one, and the middleware of every request that
\* has arrived ends.
C14_EveryRequestDecided ==
  /\ [](\A c \in Calls :
         /\ Decisions(c) <= 1
         /\ request[c].stage = "ended" => Decisions(c) = 1
         /\ \A i \in DOMAIN request[c].responses : request[c].responses[i] \in {400, 402, 500})
  /\ \A c \in Calls : (request[c].stage # "idle") ~> (request[c].stage = "ended")

\* one request was let through after its payment was verified, another
\* was answered 402 after an error of the node or of the store
C14_Witness ==
  \E c \in Calls : \E d \in Calls :
    /\ request[c].stage = "ended" /\ request[c].enabled
    /\ request[c].nextCalls = 1 /\ call[c].pc = "done"
    /\ request[d].stage = "ended"
    /\ request[d].responses = << 402 >>
    /\ call[d].answers \cap { << "findOne", "throws" >>, << "confirmTransaction", "throws" >>,
                              << "getTransaction", "throws" >> } # {}

\* the payment input of the request is malformed: the header is not the
\* JSON of an object with the required fields and a transaction, or the
\* transaction cannot be decoded or lacks a signature
Malformed(header) ==
  /\ header.present
  /\ \/ header.json # "object"
     \/ ~(RequiredFields \subseteq header.fields)
     \/ header.serializedTransaction = NoNumber
     \/ header.serializedTransaction = Undecodable
     \/ Len(Transactions[header.serializedTransaction].signature) = 0

\* C20: with x402 enabled a request without the header gets 402, a
\* request with malformed payment input gets 400, a request whose
\* well-formed payment is rejected by verifyPayment gets 402, and next() is
\* called only after verifyPayment has returned success.
C20_StatusMapping ==
  \A c \in Calls :
    (request[c].stage = "ended" /\ request[c].enabled) =>
      LET h == request[c].header
      IN  /\ ~h.present => (request[c].responses = << 402 >> /\ request[c].nextCalls = 0)
          /\ Malformed(h) => (request[c].responses = << 400 >> /\ request[c].nextCalls = 0)
          /\ (h.present /\ ~Malformed(h) /\ ~call[c].result.success) =>
               (request[c].responses = << 402 >> /\ request[c].nextCalls = 0)
          /\ request[c].nextCalls > 0 => (call[c].pc = "done" /\ call[c].result.success)

\* the mapping as the middleware has it: 400 for a header that is not
\* JSON or lacks a field, 500 for the JSON value null, 402 for a missing
\* header and for every rejection of verifyPayment, that of a transaction
\* that cannot be decoded or lacks a signature included
X402MappingOfTheCode ==
  \A c \in Calls :
    (request[c].stage = "ended" /\ request[c].enabled) =>
      LET h == request[c].header
          code == IF ~h.present THEN 402
                  ELSE IF h.json = "invalid" THEN 400
                  ELSE IF h.json = "null" THEN 500
                  ELSE IF ~(RequiredFields \subseteq h.fields) THEN 400
                  ELSE IF h.serializedTransaction = NoNumber THEN 400
                  ELSE IF ~call[c].result.success THEN 402
                  ELSE 0
      IN  IF code = 0 THEN request[c].responses = << >> /\ request[c].nextCalls = 1
          ELSE request[c].responses = << code >> /\ request[c].nextCalls = 0

(***************************************************************************)
(* Chain-position metadata.                                                *)
(***************************************************************************)
\* C21: a record has blockTime, slot or verifiedAt set only if its status
\* is confirmed; a failed record has none of them, however often it was
\* written.
C21_ChainPositionOnlyOnSuccess ==
  \A i \in DOMAIN store :
    store[i].status # "confirmed" =>
      /\ store[i].blockTime = NoNumber
      /\ store[i].slot = NoNumber
      /\ store[i].verifiedAt = NoNumber

(***************************************************************************)
(* TokenRiskScorer.assessTokenRisk, applied on its own.  Scores with a      *)
(* fraction are kept in hundredths: the component scores are integers and   *)
(* the weights are hundredths, so the weighted sum is a whole number of     *)
(* hundredths.                                                              *)
(***************************************************************************)
\* what getTokenData found: volume24h and mcap (0 when the field is
\* missing) on every side of every threshold of the scorer, and isVerified
Volumes == {0, 1, 10000, 50000, 100000, 500000, 1000000}
MarketCaps == {0, 1, 10000, 100000, 1000000, 10000000, 100000000}
TokenData == [volume24h : Volumes, mcap : MarketCaps, isVerified : BOOLEAN]
\* getTokenData returned success: false
TokenNotFound == [notFound |-> TRUE]

calculateVolumeScore(token) ==
  IF token.volume24h >= 1000000 THEN 10
  ELSE IF token.volume24h >= 500000 THEN 20
  ELSE IF token.volume24h >= 100000 THEN 35
  ELSE IF token.volume24h >= 50000 THEN 50
  ELSE IF token.volume24h >= 10000 THEN 70
  ELSE 90

\* the placeholder: nothing in its try throws
calculateHolderScore == 50

calculateLiquidityScore(token) ==
  IF token.mcap >= 10000000 THEN 15
  ELSE IF token.mcap >= 1000000 THEN 30
  ELSE IF token.mcap >= 100000 THEN 50
  ELSE IF token.mcap >= 10000 THEN 75
  ELSE 95

calculateAgeScore(token) ==
  LET hasMarketCap == token.mcap > 0
      hasVolume == token.volume24h > 0
  IN  IF token.isVerified /\ hasMarketCap /\ hasVolume THEN 20
      ELSE IF hasMarketCap /\ hasVolume THEN 40
      ELSE 70

calculateVerificationScore(token) == IF token.isVerified THEN 0 ELSE 40

calculateMarketCapScore(token) ==
  IF token.mcap >= 100000000 THEN 5
  ELSE IF token.mcap >= 10000000 THEN 15
  ELSE IF token.mcap >= 1000000 THEN 35
  ELSE IF token.mcap >= 100000 THEN 60
  ELSE 90

\* the weights, in hundredths
weights ==
  [volumeScore |-> 20, holderScore |-> 15, liquidityScore |-> 25, ageScore |-> 10,
   verificationScore |-> 15, marketCapScore |-> 15]

RECURSIVE SumOver(_, _)
SumOver(f, names) ==
  IF names = {} THEN 0
  ELSE LET k == CHOOSE x \in names : TRUE IN f[k] + SumOver(f, names \ {k})

\* the total score, in hundredths
calculateWeightedScore(scores) ==
  SumOver([key \in DOMAIN weights |-> scores[key] * weights[key]], DOMAIN weights)

\* getRiskLevel of a score in hundredths
getRiskLevel(score) ==
  IF score <= 4000 THEN "SAFE" ELSE IF score <= 6500 THEN "MODERATE" ELSE "DANGER"

\* Math.round of a score in hundredths: the nearest integer, halves up
MathRound(score) == (score + 50) \div 100

NoAssessment == [success |-> FALSE, riskScore |-> NoNumber, riskLevel |-> Null]

assessTokenRisk(tokenData) ==
  IF tokenData = TokenNotFound THEN NoAssessment
  ELSE
    LET scores == [volumeScore |-> calculateVolumeScore(tokenData),
                   holderScore |-> calculateHolderScore,
                   liquidityScore |-> calculateLiquidityScore(tokenData),
                   ageScore |-> calculateAgeScore(tokenData),
                   verificationScore |-> calculateVerificationScore(tokenData),
                   marketCapScore |-> calculateMarketCapScore(tokenData)]
        totalScore == calculateWeightedScore(scores)
    IN  [success |-> TRUE, riskScore |-> MathRound(totalScore),
         riskLevel |-> getRiskLevel(totalScore)]

InitAssess ==
  /\ InitPayments
  /\ batch = IdleBatch
  /\ vault = DerivedVault
  /\ keys = NoKeys
  /\ probe \in { [applied |-> FALSE, tokenData |-> d, result |-> NoAssessment] :
                   d \in TokenData \cup {TokenNotFound} }

Assess ==
  /\ ~probe.applied
  /\ probe' = [probe EXCEPT !.applied = TRUE, !.result = assessTokenRisk(probe.tokenData)]
  /\ UNCHANGED << store, landed, call, request, batch, vault, keys >>

SpecAssess == InitAssess /\ [][Assess]_vars

\* C22: in every successful assessment the level and the integer score
\* that are returned agree: SAFE iff the score is in 0..40, MODERATE iff
\* it is in 41..65, DANGER iff it is in 66..100.
C22_LevelMatchesScore ==
  (probe.applied /\ probe.result.success) =>
    /\ probe.result.riskScore \in 0..100
    /\ probe.result.riskLevel = "SAFE" <=> probe.result.riskScore \in 0..40
    /\ probe.result.riskLevel = "MODERATE" <=> probe.result.riskScore \in 41..65
    /\ probe.result.riskLevel = "DANGER" <=> probe.result.riskScore \in 66..100

(***************************************************************************)
(* The batch endpoints: batch-risk, batch-classify and batch-full-analysis *)
(* of the public router and of the premium router.                         *)
(***************************************************************************)
\* the literal limit of the six handlers
MaxBatch == 10

BatchEndpoints ==
  [access : {"public", "premium"},
   route : {"batch-risk", "batch-classify", "batch-full-analysis"}]

\* a request body with n distinct addresses, not in ascending order
AddressList(n) == [i \in 1..n |-> (i * 5) % 13]
\* the bodies: tokenAddresses missing or not an array, or an array of 0
\* to MaxBatch + 1 addresses
BatchBodies ==
  { [isArray |-> FALSE, tokenAddresses |-> << >>] }
    \cup { [isArray |-> TRUE, tokenAddresses |-> AddressList(n)] : n \in 0..(MaxBatch + 1) }

\* what the loop pushes for an address whose analysis ended with this
\* outcome.  batchAssessRisk pushes the assessment itself, which names the
\* address only when it succeeded; the public batch-full-analysis settles
\* every promise and the premium batch-risk awaits assessTokenRisk, which
\* does not throw, so both push success: true; the others push from their
\* try or from their catch
BatchResult(endpoint, address, outcome) ==
  IF endpoint.access = "public" /\ endpoint.route = "batch-risk"
    THEN [success |-> outcome = "ok",
          tokenAddress |-> IF outcome = "ok" THEN address ELSE NoNumber]
  ELSE IF \/ endpoint.access = "public" /\ endpoint.route = "batch-full-analysis"
          \/ endpoint.access = "premium" /\ endpoint.route = "batch-risk"
    THEN [success |-> TRUE, tokenAddress |-> address]
  ELSE [success |-> outcome = "ok", tokenAddress |-> address]

\* res.json({success: true, count: results.length, results})
BatchResponded(b) == [b EXCEPT !.stage = "ended", !.status = 200, !.count = Len(b.results)]

\* the handler up to its first await
BatchRequest(endpoint, body) ==
  /\ batch.stage = "idle"
  /\ LET arrived == [batch EXCEPT !.endpoint = endpoint, !.isArray = body.isArray,
                                  !.tokenAddresses = body.tokenAddresses]
         n == Len(body.tokenAddresses)
     IN  batch' =
           IF ~body.isArray THEN [arrived EXCEPT !.stage = "ended", !.status = 400]
           ELSE IF endpoint.access = "premium" /\ n = 0
             THEN [arrived EXCEPT !.stage = "ended", !.status = 400]
           ELSE IF n > MaxBatch THEN [arrived EXCEPT !.stage = "ended", !.status = 400]
           ELSE IF n = 0 THEN BatchResponded(arrived)
           ELSE [arrived EXCEPT !.stage = "loop"]
  /\ UNCHANGED << store, landed, call, request, probe, vault, keys >>

\* a loop in which the failure of one analysis ends the request
BatchAnalysed_FailureEnds(outcome) ==
  /\ batch.stage = "loop"
  /\ Len(batch.results) < Len(batch.tokenAddresses)
  /\ LET address == batch.tokenAddresses[Len(batch.results) + 1]
         pushed == [batch EXCEPT
                      !.results = Append(@, BatchResult(batch.endpoint, address, outcome)),
                      !.analysed = Append(@, address)]
     IN  batch' =
           IF outcome # "ok" THEN [pushed EXCEPT !.stage = "ended", !.status = 500]
           ELSE IF /\ batch.endpoint.access = "premium"
                   /\ Len(pushed.results) = Len(batch.tokenAddresses)
             THEN BatchResponded(pushed)
           ELSE pushed
  /\ UNCHANGED << store, landed, call, request, probe, vault, keys >>

\* the analysis of the next address ends: its result is pushed.  The
\* premium handlers answer in the turn of the last push; the public ones
\* wait 500 ms after every push
BatchAnalysed(outcome) ==
  /\ batch.stage = "loop"
  /\ Len(batch.results) < Len(batch.tokenAddresses)
  /\ LET address == batch.tokenAddresses[Len(batch.results) + 1]
         pushed == [batch EXCEPT
                      !.results = Append(@, BatchResult(batch.endpoint, address, outcome)),
                      !.analysed = Append(@, address)]
     IN  batch' =
           IF /\ batch.endpoint.access = "premium"
              /\ Len(pushed.results) = Len(batch.tokenAddresses)
             THEN BatchResponded(pushed)
           ELSE pushed
  /\ UNCHANGED << store, landed, call, request, probe, vault, keys >>

\* the last delay of a public handler is over: the response is sent
BatchDelayOver ==
  /\ batch.stage = "loop"
  /\ batch.endpoint.access = "public"
  /\ Len(batch.results) = Len(batch.tokenAddresses)
  /\ batch' = BatchResponded(batch)
  /\ UNCHANGED << store, landed, call, request, probe, vault, keys >>

NextBatch ==
  \/ \E endpoint \in BatchEndpoints, body \in BatchBodies : BatchRequest(endpoint, body)
  \/ \E outcome \in {"ok", "fails"} : BatchAnalysed(outcome)
  \/ BatchDelayOver

SpecBatch == Init /\ [][NextBatch]_vars

\* C23: a batch request with more than 10 addresses is answered 400 and no
\* address of it is analysed; a request with 1..10 addresses is analysed
\* address by address in the order of the input, whatever the outcome of
\* the earlier analyses, and is answered with one result per address in
\* that order and with count equal to the number of addresses.
C23_BatchLimit ==
  (batch.stage # "idle" /\ batch.isArray) =>
    LET n == Len(batch.tokenAddresses)
    IN  /\ n > MaxBatch =>
             /\ batch.stage = "ended" /\ batch.status = 400
             /\ batch.analysed = << >> /\ batch.results = << >>
        /\ n \in 1..MaxBatch =>
             /\ Len(batch.results) <= n
             /\ Len(batch.analysed) = Len(batch.results)
             /\ \A i \in DOMAIN batch.results :
                  /\ batch.analysed[i] = batch.tokenAddresses[i]
                  /\ batch.results[i].tokenAddress \in {batch.tokenAddresses[i], NoNumber}
             /\ batch.stage = "ended" =>
                  /\ batch.status = 200
                  /\ batch.count = n
                  /\ Len(batch.results) = n

\* a request with 10 addresses was answered although the analysis of its
\* first address failed
C23_Witness ==
  /\ batch.stage = "ended"
  /\ Len(batch.tokenAddresses) = MaxBatch
  /\ batch.status = 200 /\ batch.count = MaxBatch
  /\ ~batch.results[1].success
  /\ batch.results[MaxBatch].success

(***************************************************************************)
(* The signature identifier.                                               *)
(***************************************************************************)
\* C24: the identifier a call uses as the key of its step-3 lookup is the
\* identifier under which it upserts its record, and every record of a
\* transaction in the store carries the key by which the lookup of a call
\* on that transaction asks for it.
C24_OneSignatureIdentifier ==
  /\ \A c \in Calls :
       (OnTransaction(c) /\ call[c].txSignature # NoString) =>
         call[c].txSignature = LookupKey(call[c].input)
  /\ \A t \in TxIds : \A i \in RecordsOf(store, t) :
       store[i].transactionSignature = LookupKey(t)

(***************************************************************************)
(* Early rejections and the store.                                         *)
(***************************************************************************)
\* C25: a step of a call that has not reached the confirmation step leaves
\* the store as it is, and a call that was rejected before the confirmation
\* step (at the decode, at the lookup, at static validation, at the
\* simulation or at the submission) has asked the store for no write.
C25_EarlyRejectionFrame ==
  /\ [](\A c \in Calls :
         (/\ call[c].pc = "done"
          /\ ~call[c].result.success
          /\ "confirmTransaction" \notin call[c].ops) => call[c].ops \cap StoreWrites = {})
  /\ [][\A c \in Calls :
          (call'[c] # call[c] /\ "confirmTransaction" \notin call'[c].ops) => store' = store]_vars

\* a call that started when another call had written its record was
\* rejected at the submission, and the record is still in the store
C25_Witness ==
  \E c \in Calls : \E d \in Calls :
    /\ d \in call[c].after
    /\ call[d].ops \cap StoreWrites # {}
    /\ Len(store) > 0
    /\ call[c].pc = "done" /\ ~call[c].result.success
    /\ call[c].ops = {"findOne", "simulateTransaction", "sendRawTransaction"}

(***************************************************************************)
(* parseTokenTransfers, applied on its own.                                *)
(***************************************************************************)
\* the token accounts of a finalized transaction: account 0 of the payer,
\* account 1 of the payment wallet
ProbeAmounts == {0, 20000, 120000}
ProbeBalance(idx, amount) ==
  Bal(idx, amount, IF idx = 0 THEN Alice ELSE paymentWallet, "X402_TOKEN_MINT")
\* the balance lists the node may report: each account at most once
BalanceLists ==
  { << >> }
    \cup { << ProbeBalance(idx, a) >> : idx \in {0, 1}, a \in ProbeAmounts }
    \cup { << ProbeBalance(idx, a), ProbeBalance(1 - idx, b) >> :
             idx \in {0, 1}, a \in ProbeAmounts, b \in ProbeAmounts }

ProbeDetails ==
  { [err |-> err, preTokenBalances |-> pre, postTokenBalances |-> post,
     logMessages |-> logs, accountKeys |-> AccountKeys] :
      err \in {Null, "InstructionError"}, pre \in BalanceLists, post \in BalanceLists,
      logs \in {TokenLogs, TokenLogs \o << LogLine(TRUE, TRUE) >>} }

InitParse ==
  /\ InitPayments
  /\ batch = IdleBatch
  /\ vault = DerivedVault
  /\ keys = NoKeys
  /\ probe \in { [applied |-> FALSE, variant |-> v, txDetails |-> d, result |-> << >>] :
                   v \in Variants, d \in ProbeDetails }

Parse ==
  /\ ~probe.applied
  /\ probe' = [probe EXCEPT !.applied = TRUE,
                            !.result = parseTokenTransfers(probe.variant, probe.txDetails)]
  /\ UNCHANGED << store, landed, call, request, batch, vault, keys >>

SpecParse == InitParse /\ [][Parse]_vars

\* the amount a balance list reports for an account index, 0 if the index
\* is not in the list
BalanceAt(list, idx) ==
  IF \E i \in DOMAIN list : list[i].accountIndex = idx
    THEN list[CHOOSE i \in DOMAIN list : list[i].accountIndex = idx].amount
    ELSE 0

\* C26: parseTokenTransfers yields exactly one transfer for each account
\* index whose post balance minus pre balance is positive, with that
\* difference as amount and the mint of the account, and no other transfer.
C26_TransfersAreBalanceIncreases ==
  probe.applied =>
    LET pre == probe.txDetails.preTokenBalances
        post == probe.txDetails.postTokenBalances
        increased == {idx \in {0, 1} : BalanceAt(post, idx) - BalanceAt(pre, idx) > 0}
    IN  /\ Len(probe.result) = Cardinality(increased)
        /\ \A idx \in increased :
             \E i \in DOMAIN probe.result :
               /\ probe.result[i].amount = BalanceAt(post, idx) - BalanceAt(pre, idx)
               /\ probe.result[i].mint = "X402_TOKEN_MINT"
               /\ probe.variant = "wallet" =>
                    probe.result[i].destination = ProbeBalance(idx, 0).owner

(***************************************************************************)
(* Replay with another endpoint or user.                                   *)
(***************************************************************************)
\* C27: a call on a transaction that had a confirmed record when the call
\* started, made with another endpoint or userId than the call that
\* confirmed it, leaves every field of the stored record as it was and,
\* once it has returned, has returned that record.
C27_ReplayLeavesRecord ==
  \A c \in Calls : \A d \in Calls :
    (/\ ReplayOf(c, d)
     /\ << call[c].endpoint, call[c].userId >> # << call[d].endpoint, call[d].userId >>) =>
      /\ \E i \in RecordsOf(store, call[c].input) : store[i] = call[d].result.payment
      /\ call[c].pc = "done" =>
           /\ call[c].result.success
           /\ call[c].result.payment = call[d].result.payment


(***************************************************************************)
(* The vault address of the reward-pool controller.                        *)
(***************************************************************************)
\* the controller as its constructor leaves it: initializePoolVault has been
\* called and not awaited, this.rewardPoolVault is not assigned yet
UnderivedVault == [address |-> NoString, initialising |-> TRUE]
VaultOutcomes == {"derived", "throws"}

\* the rest of initializePoolVault.  Its one await is of a computation that
\* asks no node, so it ends in the turn of the construction, before the server
\* handles its first request (Start waits for it); an error (the mint is not
\* a public key) is logged and leaves the address unassigned for good
InitializePoolVault(outcome) ==
  /\ vault.initialising
  /\ vault' = [address |-> IF outcome = "derived" THEN rewardPoolVault ELSE NoString,
               initialising |-> FALSE]
  /\ UNCHANGED << store, landed, call, request, probe, batch, keys >>

InitVault ==
  InitPayments /\ probe = NoProbe /\ batch = IdleBatch /\ vault = UnderivedVault /\ keys = NoKeys

NextVault ==
  \/ \E outcome \in VaultOutcomes : InitializePoolVault(outcome)
  \/ Next

SpecVault == InitVault /\ [][NextVault]_vars

\* C28: the reward-pool vault is initialised before use: while its address
\* is unset no verifyPayment call of the reward-pool controller has returned
\* success or written a record, and every record the reward-pool variant
\* wrote has the derived vault address as its recipientWallet
C28_VaultSetBeforeUse ==
  /\ vault.address = NoString =>
       /\ \A c \in Calls :
            call[c].variant = "pool" => ~(call[c].pc = "done" /\ call[c].result.success)
       /\ \A i \in DOMAIN store : store[i].tokenMint # tokenMint("pool")
  /\ \A i \in DOMAIN store :
       store[i].tokenMint = tokenMint("pool") => store[i].recipientWallet = rewardPoolVault


(***************************************************************************)
(* The API keys of one user: POST, PATCH and DELETE /auth/api-keys.        *)
(***************************************************************************)
\* documents ever saved, enough to pass the limit
MaxKeys == 12
\* the keyIds that PATCH and DELETE requests name: two keys of the user and
\* one that is no key of theirs
KeyIds == {1, 2, MaxKeys + 1}
\* req.body.isActive of a PATCH: undefined, true or false
IsActiveValues == {Null, "true", "false"}

KeyUnchanged == << store, landed, call, request, probe, batch, vault >>

\* APIKey.countDocuments({userId, isActive: true})
countDocuments(docs) == Cardinality({i \in DOMAIN docs : docs[i].isActive})
\* APIKey.findOne({_id: keyId, userId})
findOneKey(docs, keyId) == SelectSeq(docs, LAMBDA d : d._id = keyId)

KeyAnswered(c, status) ==
  keys' = [keys EXCEPT !.requests[c] = [IdleKeyRequest EXCEPT !.status = status]]
KeyAwaits(c, r) == keys' = [keys EXCEPT !.requests[c] = r]

\* POST /auth/api-keys up to its first await
PostApiKeys(c, hasName) ==
  /\ keys.requests[c].pc = "idle"
  /\ IF ~hasName THEN KeyAnswered(c, 400)
     ELSE KeyAwaits(c, [IdleKeyRequest EXCEPT !.pc = "post: countDocuments"])
  /\ UNCHANGED KeyUnchanged

\* the count is back: the limit test and the request to save the new key
CountDocumentsReturn(c, outcome) ==
  /\ keys.requests[c].pc = "post: countDocuments"
  /\ IF outcome = "throws" THEN KeyAnswered(c, 500)
     ELSE LET activeKeysCount == countDocuments(keys.docs)
          IN  IF activeKeysCount >= 10 THEN KeyAnswered(c, 400)
              ELSE KeyAwaits(c, [keys.requests[c] EXCEPT !.pc = "post: save"])
  /\ UNCHANGED KeyUnchanged

\* apiKey.save() of the new document (isActive defaults to true); a name
\* the schema refuses is a ValidationError, answered 400
SaveOutcomes == {"ok", "ValidationError", "throws"}
SaveNewReturn(c, outcome) ==
  /\ keys.requests[c].pc = "post: save"
  /\ keys.created < MaxKeys
  /\ IF outcome = "throws" THEN KeyAnswered(c, 500)
     ELSE IF outcome = "ValidationError" THEN KeyAnswered(c, 400)
     ELSE keys' = [keys EXCEPT !.docs = Append(@, [_id |-> keys.created + 1, isActive |-> TRUE]),
                               !.created = @ + 1,
                               !.requests[c] = [IdleKeyRequest EXCEPT !.status = 201]]
  /\ UNCHANGED KeyUnchanged

\* PATCH /auth/api-keys/:keyId up to its findOne
PatchApiKey(c, keyId, isActive, renames) ==
  /\ keys.requests[c].pc = "idle"
  /\ KeyAwaits(c, [IdleKeyRequest EXCEPT !.pc = "patch: findOne", !.keyId = keyId,
                                         !.isActive = isActive, !.renames = renames])
  /\ UNCHANGED KeyUnchanged

\* DELETE /auth/api-keys/:keyId up to its findOne
DeleteApiKey(c, keyId) ==
  /\ keys.requests[c].pc = "idle"
  /\ KeyAwaits(c, [IdleKeyRequest EXCEPT !.pc = "delete: findOne", !.keyId = keyId])
  /\ UNCHANGED KeyUnchanged

\* the findOne of either route is back
FindOneKeyReturn(c, outcome) ==
  /\ keys.requests[c].pc \in {"patch: findOne", "delete: findOne"}
  /\ LET apiKey == findOneKey(keys.docs, keys.requests[c].keyId)
     IN  IF outcome = "throws" THEN KeyAnswered(c, 500)
         ELSE IF Len(apiKey) = 0 THEN KeyAnswered(c, 404)
         ELSE KeyAwaits(c, [keys.requests[c] EXCEPT
                              !.pc = IF @ = "patch: findOne" THEN "patch: save"
                                     ELSE "delete: deleteOne",
                              !.loaded = apiKey[1].isActive])
  /\ UNCHANGED KeyUnchanged

\* apiKey.save() of the PATCH: the paths that were modified on the loaded
\* document are written to the stored one; nothing modified, nothing is
\* sent; a stored document that is gone by now is a DocumentNotFoundError
PatchSaveReturn(c, outcome) ==
  /\ keys.requests[c].pc = "patch: save"
  /\ LET r == keys.requests[c]
         isActive == r.isActive = "true"
         activeModified == r.isActive # Null /\ isActive # r.loaded
         stored == {i \in DOMAIN keys.docs : keys.docs[i]._id = r.keyId}
     IN  IF outcome = "throws" THEN KeyAnswered(c, 500)
         ELSE IF ~(activeModified \/ r.renames)
           THEN KeyAnswered(c, 200)
         ELSE IF stored = {} THEN KeyAnswered(c, 500)
         ELSE keys' = [keys EXCEPT
                         !.docs = [i \in DOMAIN keys.docs |->
                                     IF i \in stored /\ activeModified
                                       THEN [keys.docs[i] EXCEPT !.isActive = isActive]
                                     ELSE keys.docs[i]],
                         !.requests[c] = [IdleKeyRequest EXCEPT !.status = 200]]
  /\ UNCHANGED KeyUnchanged

\* APIKey.deleteOne({_id: keyId})
DeleteOneReturn(c, outcome) ==
  /\ keys.requests[c].pc = "delete: deleteOne"
  /\ IF outcome = "throws" THEN KeyAnswered(c, 500)
     ELSE keys' = [keys EXCEPT
                     !.docs = SelectSeq(@, LAMBDA d : d._id # keys.requests[c].keyId),
                     !.requests[c] = [IdleKeyRequest EXCEPT !.status = 200]]
  /\ UNCHANGED KeyUnchanged

NextKeys ==
  \/ \E c \in Calls, hasName \in BOOLEAN : PostApiKeys(c, hasName)
  \/ \E c \in Calls, o \in StoreFaultOutcomes : CountDocumentsReturn(c, o)
  \/ \E c \in Calls, o \in SaveOutcomes : SaveNewReturn(c, o)
  \/ \E c \in Calls, keyId \in KeyIds, isActive \in IsActiveValues, renames \in BOOLEAN :
       PatchApiKey(c, keyId, isActive, renames)
  \/ \E c \in Calls, keyId \in KeyIds : DeleteApiKey(c, keyId)
  \/ \E c \in Calls, o \in StoreFaultOutcomes : FindOneKeyReturn(c, o)
  \/ \E c \in Calls, o \in StoreFaultOutcomes : PatchSaveReturn(c, o)
  \/ \E c \in Calls, o \in StoreFaultOutcomes : DeleteOneReturn(c, o)

SpecKeys == Init /\ [][NextKeys]_vars

\* C29: the active API key cap: whatever POST, PATCH and DELETE requests the
\* user has made, in sequence or overlapping, the user owns at most 10 API
\* keys with isActive = true
C29_ActiveKeyCap == countDocuments(keys.docs) <= 10


(***************************************************************************)
(* verifyApiKeyOrPayment: an API key or an x402 payment.                   *)
(***************************************************************************)
\* req.headers['x-api-key']: no header, an empty one, or a key
EmptyString == ""
ApiKeyHeaders == {Null, EmptyString, "cp_key"}
\* keyDoc.isSubscriptionCurrent(): the APIKey schema defines no such method
\* ("not a function": the call throws a TypeError); a schema that has it
\* answers true or false
Subscriptions == {"not a function", "current", "lapsed"}
\* what APIKey.findOne({key}).populate('userId') may return for a key: an
\* error, null, or a document; its user is null when the account is gone
KeyDoc(outcome, isActive, expired, subscription, user) ==
  [outcome |-> outcome, isActive |-> isActive, expired |-> expired,
   subscription |-> subscription, user |-> user]
KeyLookups ==
  {KeyDoc("throws", FALSE, FALSE, Null, Null), KeyDoc("null", FALSE, FALSE, Null, Null)}
    \cup {KeyDoc("found", isActive, expired, subscription, user) :
            isActive \in BOOLEAN, expired \in BOOLEAN, subscription \in Subscriptions,
            user \in {"active", "disabled", Null}}

\* the X-PAYMENT headers of these requests: none, one that is no JSON, one
\* with a transaction that cannot be decoded and one with a valid transfer
GateHeaders ==
  { AbsentHeader, Header(TRUE, "invalid", {}, NoNumber),
    Header(TRUE, "object", RequiredFields, Undecodable),
    Header(TRUE, "object", RequiredFields, 1) }

\* the middleware at its entry: a truthy x-api-key goes to verifyApiKey,
\* which runs to its findOne; anything else goes to verifyX402Payment (of
\* the payment-wallet controller)
verifyApiKeyOrPayment(c, enabled, header, apiKey) ==
  IF apiKey \notin {Null, EmptyString}
    THEN /\ request[c].stage = "idle"
         /\ \A d \in Calls : d < c => request[d].stage # "idle"
         /\ call[c].pc = "idle"
         /\ request' = [request EXCEPT ![c].stage = "verifyApiKey", ![c].apiKey = apiKey]
         /\ UNCHANGED << store, landed, call, beside >>
    ELSE verifyX402Payment(c, "wallet", enabled, header, apiKey)

\* verifyApiKey after its findOne: the tests in the order of the code; a
\* TypeError (no isSubscriptionCurrent, no user) goes to the catch.  The
\* usage count it records without awaiting is not modelled
verifyApiKeyReturn(c, keyDoc) ==
  /\ request[c].stage = "verifyApiKey"
  /\ LET looked == [request[c] EXCEPT !.keyDoc = keyDoc]
         respond(code) == [looked EXCEPT !.stage = "ended", !.responses = Append(@, code)]
     IN  request' = [request EXCEPT ![c] =
           IF keyDoc.outcome = "throws" THEN respond(500)
           ELSE IF keyDoc.outcome = "null" THEN respond(401)
           ELSE IF ~keyDoc.isActive THEN respond(401)
           ELSE IF keyDoc.expired THEN respond(401)
           ELSE IF keyDoc.subscription = "not a function" THEN respond(500)
           ELSE IF keyDoc.subscription = "lapsed" THEN respond(402)
           ELSE IF keyDoc.user = Null THEN respond(500)
           ELSE IF keyDoc.user = "disabled" THEN respond(401)
           ELSE [looked EXCEPT !.stage = "ended", !.nextCalls = @ + 1]]
  /\ UNCHANGED << store, landed, call, beside >>

NextGate ==
  \/ \E c \in Calls, enabled \in BOOLEAN, header \in GateHeaders, apiKey \in ApiKeyHeaders :
        verifyApiKeyOrPayment(c, enabled, header, apiKey)
  \/ \E c \in Calls, keyDoc \in KeyLookups : verifyApiKeyReturn(c, keyDoc)
  \/ \E c \in Calls : Progress(c)

SpecGate == Init /\ [][NextGate]_vars

\* the x-api-key header of request c named an existing, active, unexpired
\* key of an active user
NamesValidKey(c) ==
  /\ request[c].keyDoc.outcome = "found"
  /\ request[c].keyDoc.isActive /\ ~request[c].keyDoc.expired
  /\ request[c].keyDoc.user = "active"

\* C30: the access gate of verifyApiKeyOrPayment: next() is called only for
\* a request whose x-api-key header names an existing, active, unexpired key
\* of an active user, or which has no x-api-key header and whose X-PAYMENT
\* transaction verifyPayment accepted; a request with an invalid x-api-key
\* header is answered 401 and never reaches the payment path
C30_AccessGate ==
  \A c \in Calls :
    /\ request[c].nextCalls > 0 =>
         \/ request[c].apiKey # Null /\ NamesValidKey(c)
         \/ request[c].apiKey = Null /\ call[c].pc = "done" /\ call[c].result.success
    /\ (request[c].stage = "ended" /\ request[c].apiKey # Null /\ ~NamesValidKey(c)) =>
         /\ request[c].responses = << 401 >>
         /\ request[c].nextCalls = 0
         /\ call[c].pc = "idle"

====
